---- MODULE Spec2Model ----
(***************************************************************************)
(* Model of the matfmonitor check scheduler (package checker, Scheduler)   *)
(* together with the status store it drives (package store).               *)
(*                                                                         *)
(* One control-loop goroutine (Scheduler.run), one goroutine per           *)
(* dispatched probe, the caller of Stop, callers of RequestPriorityCheck,  *)
(* the ticker, the metadata provider and the clock are the processes.      *)
(* Every step below is one atomic section of the Go code: a channel        *)
(* operation, a mutex-protected section, or one store statement.           *)
(***************************************************************************)
EXTENDS Integers, Sequences, FiniteSets, Bags, TLC

(***************************************************************************)
(* Bounds of the model.                                                    *)
(***************************************************************************)
MaxTime == 3
MaxEvents == 4

(***************************************************************************)
(* Scheduler configuration (fields of Scheduler set by NewScheduler).      *)
(* Durations are in clock units.                                           *)
(***************************************************************************)
maxParallel == 1
maxPriorityServers == 2
minCheckInterval == 2
priorityMinInterval == 1

(***************************************************************************)
(* Server identities.  Strings are sequences of characters so that         *)
(* serverKeyString is a real concatenation.                                *)
(***************************************************************************)
EntityIDs == { <<"e">>, <<"e", "|", "u">> }

\* the base URIs an entity may publish
BaseURIs(e) == IF e = <<"e">> THEN { <<"u">>, <<"u", "|", "u">> } ELSE { <<"u">> }

Key(e, u) == [EntityID |-> e, BaseURI |-> u]

ServerKey == UNION { { Key(e, u) : u \in BaseURIs(e) } : e \in EntityIDs }

serverKeyString(entityID, baseURI) == entityID \o <<"|">> \o baseURI

(***************************************************************************)
(* Metadata snapshots (fedtls.MetadataStore.GetMetadata): nil, or a list   *)
(* of entities each with its servers.  Entities is a function from the     *)
(* entity IDs present to the set of their base URIs.                       *)
(***************************************************************************)
NoEntities == [e \in {} |-> {}]

NilMetadata == [isNil |-> TRUE, Entities |-> NoEntities]

Snapshot(f) == [isNil |-> FALSE, Entities |-> f]

\* the snapshots the metadata provider serves: no entity, an entity without
\* servers, one entity with one server, every entity with all its servers
Snapshots ==
    { Snapshot(NoEntities),
      Snapshot([e \in { <<"e">> } |-> {}]),
      Snapshot([e \in { <<"e">> } |-> { <<"u">> }]),
      Snapshot([e \in EntityIDs |-> BaseURIs(e)]) }

MetadataValues == Snapshots \cup {NilMetadata}

\* variant: the startup condition without the test for an entity
MetadataAvailableNonNil(parsed) == ~parsed.isNil

\* the startup condition of run: metadata != nil && len(metadata.Entities) > 0
MetadataAvailable(parsed) ==
    /\ ~parsed.isNil
    /\ DOMAIN parsed.Entities # {}

\* currentServers as collected by the loops of syncServersFromMetadata
CurrentServers(parsed) ==
    { k \in ServerKey :
        /\ k.EntityID \in DOMAIN parsed.Entities
        /\ k.BaseURI \in parsed.Entities[k.EntityID] }

\* getServerFromMetadata: TRUE iff it returns a non-nil server
getServerFromMetadata(parsed, entityID, baseURI) ==
    /\ ~parsed.isNil
    /\ entityID \in DOMAIN parsed.Entities
    /\ baseURI \in parsed.Entities[entityID]

(***************************************************************************)
(* The store: table server_status, primary key (entity_id, base_uri).      *)
(* rows is a function from the keys that have a row to the row.  A row     *)
(* with checked = FALSE has last_checked and is_healthy NULL.              *)
(***************************************************************************)
NullRow == [checked |-> FALSE, LastChecked |-> 0, IsHealthy |-> FALSE]

NoRows == [k \in {} |-> NullRow]

\* variant: the status built from the result loses the verdict
CheckedRowUnhealthy(t, h) == [checked |-> TRUE, LastChecked |-> t, IsHealthy |-> FALSE]

CheckedRow(t, h) == [checked |-> TRUE, LastChecked |-> t, IsHealthy |-> h]

\* variant: a plain INSERT that leaves a row that is there as it is
SaveStatusInsertOnly(table, key, row) ==
    [k \in DOMAIN table \cup {key} |->
        IF k \in DOMAIN table THEN table[k] ELSE row]

\* INSERT ... ON CONFLICT(entity_id, base_uri) DO UPDATE SET ...
SaveStatus(table, key, row) ==
    [k \in DOMAIN table \cup {key} |-> IF k = key THEN row ELSE table[k]]

\* variant: INSERT OR REPLACE, which resets an existing row
InsertOrReplace(table, key, blank) ==
    [k \in DOMAIN table \cup {key} |-> IF k = key THEN blank ELSE table[k]]

\* INSERT OR IGNORE of a row that names the key only: blank is the row
\* whose other columns are NULL
InsertOrIgnore(table, key, blank) ==
    [k \in DOMAIN table \cup {key} |->
        IF k \in DOMAIN table THEN table[k] ELSE blank]

\* variant: INSERT OR REPLACE, which resets an existing row
EnsureServerExistsReplacing(table, key) ==
    [k \in DOMAIN table \cup {key} |-> IF k = key THEN NullRow ELSE table[k]]

\* INSERT OR IGNORE INTO server_status (entity_id, base_uri)
EnsureServerExists(table, key) == InsertOrIgnore(table, key, NullRow)

\* variant: the DELETE without the guard for an empty list
RemoveServersNotInUnguarded(table, servers) ==
    [k \in DOMAIN table \cap servers |-> table[k]]

\* DELETE ... WHERE NOT EXISTS (... current_servers ...), skipped for an empty list
RemoveServersNotIn(table, servers) ==
    IF servers = {}
    THEN table
    ELSE [k \in DOMAIN table \cap servers |-> table[k]]

\* WHERE last_checked IS NULL OR last_checked < cutoff, cutoff = now - minInterval
NeedsCheck(row, t, minInterval) ==
    \/ ~row.checked
    \/ row.LastChecked < t - minInterval

\* variant: ORDER BY last_checked ASC only, a NULL time read as zero
OrderedBeforeByTime(r1, r2) == r1.LastChecked <= r2.LastChecked

\* ORDER BY last_checked IS NOT NULL, last_checked ASC
OrderedBefore(r1, r2) ==
    \/ ~r1.checked
    \/ r2.checked /\ r1.LastChecked <= r2.LastChecked

\* every listing of the keys S in the ORDER BY order (ties in any order)
OrderedListings(table, S) ==
    { s \in [1..Cardinality(S) -> S] :
        /\ \A i, j \in 1..Cardinality(S) : i # j => s[i] # s[j]
        /\ \A i, j \in 1..Cardinality(S) :
              i < j => OrderedBefore(table[s[i]], table[s[j]]) }

Min(a, b) == IF a <= b THEN a ELSE b

\* variant: the query without its LIMIT
LimitNone(s, limit) == s

\* LIMIT ?
Limit(s, limit) == SubSeq(s, 1, Min(limit, Len(s)))

SeqToSet(s) == { s[i] : i \in DOMAIN s }

\* variant: the priority list is ignored
PriorityCandidatesNone(table, t, priority, priorityInterval) == << >>

\* variant: a flagged key is listed whether or not it has a row
PriorityCandidatesAnyKey(table, t, priority, priorityInterval) ==
    SelectSeq(priority,
              LAMBDA k : k \notin DOMAIN table
                         \/ NeedsCheck(table[k], t, priorityInterval))

\* the priority part of the selection: flagged keys that have a row and whose
\* own interval has elapsed, in priority order
PriorityCandidates(table, t, priority, priorityInterval) ==
    SelectSeq(priority,
              LAMBDA k : k \in DOMAIN table
                         /\ NeedsCheck(table[k], t, priorityInterval))

\* the ordinary part: rows needing a check that the priority part did not list
OrdinaryCandidates(table, t, minInterval, taken) ==
    OrderedListings(table,
        { k \in DOMAIN table \ taken : NeedsCheck(table[k], t, minInterval) })

\* GetServersNeedingCheck: the set of results the query may return
GetServersNeedingCheck(table, t, minInterval, limit, priority, priorityInterval) ==
    LET first == PriorityCandidates(table, t, priority, priorityInterval)
    IN  { Limit(first \o rest, limit) :
            rest \in OrdinaryCandidates(table, t, minInterval, SeqToSet(first)) }

(***************************************************************************)
(* Scheduler helpers.                                                      *)
(***************************************************************************)
\* variant: markInFlight without the test of the map
markInFlightUnchecked(flight, entityID, baseURI) == TRUE

\* markInFlight: the value it returns
markInFlight(flight, entityID, baseURI) ==
    serverKeyString(entityID, baseURI) \notin flight

\* variant: the test without the assignment s.inFlight[key] = true
markedInFlightNotSet(flight, entityID, baseURI) == flight

\* markInFlight: the in-flight map it leaves
markedInFlight(flight, entityID, baseURI) ==
    flight \cup {serverKeyString(entityID, baseURI)}

\* variant: the mark is left in place
clearInFlightNothing(flight, entityID, baseURI) == flight

\* clearInFlight
clearInFlight(flight, entityID, baseURI) ==
    flight \ {serverKeyString(entityID, baseURI)}

\* variant: addPriorityServer without the scan for an equal entry
addPriorityServerNoDedup(list, server) ==
    IF Len(list) >= maxPriorityServers
    THEN list
    ELSE Append(list, server)

\* addPriorityServer
addPriorityServer(list, server) ==
    IF \E i \in DOMAIN list : list[i] = server
    THEN list
    ELSE IF Len(list) >= maxPriorityServers
         THEN list
         ELSE Append(list, server)

\* index of the first entry equal to server, 0 if none
FirstIndex(list, server) ==
    IF \E i \in DOMAIN list : list[i] = server
    THEN CHOOSE i \in DOMAIN list :
            /\ list[i] = server
            /\ \A j \in DOMAIN list : list[j] = server => i <= j
    ELSE 0

\* variant: removePriorityServer whose loop never matches
removePriorityServerNoMatch(list, server) == list

\* variant: the list is treated as a queue and loses its head
removePriorityServerHead(list, server) ==
    IF list = << >> THEN list ELSE Tail(list)

\* removePriorityServer: drops the first entry equal to server
removePriorityServer(list, server) ==
    LET i == FirstIndex(list, server)
    IN  IF i = 0
        THEN list
        ELSE SubSeq(list, 1, i - 1) \o SubSeq(list, i + 1, Len(list))

\* variant: the send on the semaphore channel never takes the default case
semaphoreUnbounded(held) == TRUE

\* variant: the last permit of the pool is never handed out
semaphoreKeepsOne(held) == held + 1 < maxParallel

\* the non-blocking send on the semaphore channel succeeds
semaphoreHasRoom(held) == held < maxParallel

\* the non-blocking send on priorityChan succeeds
priorityChanHasRoom(chan) == Len(chan) < maxPriorityServers

(***************************************************************************)
(* syncServersFromMetadata: the table it leaves.  ensureFailed is the set  *)
(* of keys whose EnsureServerExists returned an error, removeFailed tells  *)
(* whether RemoveServersNotIn returned one (its transaction rolls back).   *)
(***************************************************************************)
RECURSIVE EnsureAll(_, _)
EnsureAll(table, keys) ==
    IF keys = {}
    THEN table
    ELSE LET k == CHOOSE x \in keys : TRUE
         IN  EnsureAll(EnsureServerExists(table, k), keys \ {k})

syncServersFromMetadata(table, parsed, ensureFailed, removeFailed) ==
    IF parsed.isNil
    THEN table
    ELSE LET currentServers == CurrentServers(parsed)
             ensured == EnsureAll(table, currentServers \ ensureFailed)
         IN  IF currentServers # {} /\ ~removeFailed
             THEN RemoveServersNotIn(ensured, currentServers)
             ELSE ensured

(***************************************************************************)
(* State.                                                                  *)
(***************************************************************************)
VARIABLES
    pc,               \* position of the run goroutine
    stopPc,           \* position of the caller of Stop
    ctxDone,          \* s.ctx has been cancelled
    metadataChanged,  \* the metadataChanged channel (capacity 1) holds a value
    priorityChan,     \* s.priorityChan, a buffered channel
    priorityServers,  \* s.priorityServers
    inFlight,         \* s.inFlight, the set of key strings mapped to true
    semaphore,        \* number of values held by the semaphore channel
    inflightWg,       \* counter of inflightWg
    probes,           \* bag of running probe goroutines
    rows,             \* the server_status table
    metadata,         \* what metadataStore.GetMetadata returns
    now,              \* the clock
    servers,          \* run's local: the candidates returned by the store
    scan,             \* run's local: position of the candidate scan
    server,           \* run's local: the chosen candidate
    events,           \* number of steps the callers and the environment took
    call,             \* the call of Check or of a store method under study
    ret               \* what that call returned

vars == << pc, stopPc, ctxDone, metadataChanged, priorityChan,
           priorityServers, inFlight, semaphore, inflightWg, probes, rows,
           metadata, now, servers, scan, server, events, call, ret >>

runLocals == << servers, scan, server >>

NoServer == << >>

\* no call is being studied, nothing has been returned
NoCall == [op |-> "none"]

NoReturn == [op |-> "none"]

Probe(k, stage, t, h) == [key |-> k, pc |-> stage, CheckedAt |-> t, IsHealthy |-> h]

\* number of probe goroutines of key k
ProbeCount(k) ==
    LET S == { p \in BagToSet(probes) : p.key = k }
    IN  BagCardinality([p \in S |-> CopiesIn(p, probes)])

\* number of probe goroutines whose stage is in stages
StageCount(stages) ==
    LET S == { p \in BagToSet(probes) : p.pc \in stages }
    IN  BagCardinality([p \in S |-> CopiesIn(p, probes)])

One(p) == SetToBag({p})

\* one more step of a caller or of the environment
Event ==
    /\ events < MaxEvents
    /\ events' = events + 1

Init ==
    /\ pc = "new"
    /\ stopPc = "idle"
    /\ ctxDone = FALSE
    /\ metadataChanged = FALSE
    /\ priorityChan = << >>
    /\ priorityServers = << >>
    /\ inFlight = {}
    /\ semaphore = 0
    /\ inflightWg = 0
    /\ probes = EmptyBag
    /\ rows = NoRows
    /\ metadata \in MetadataValues
    /\ now = 0
    /\ servers = << >>
    /\ scan = 0
    /\ server = NoServer
    /\ events = 0
    /\ call = NoCall
    /\ ret = NoReturn

(***************************************************************************)
(* The run goroutine: startup.                                             *)
(***************************************************************************)
\* Start: wg.Add(1); go s.run(); run registers its change listener
Start ==
    /\ pc = "new"
    /\ pc' = "await"
    /\ UNCHANGED << stopPc, ctxDone, metadataChanged, priorityChan,
                    priorityServers, inFlight, semaphore, inflightWg, probes,
                    rows, metadata, call, ret, now, runLocals, events >>

\* the startup loop reads the metadata
AwaitMetadata ==
    /\ pc = "await"
    /\ pc' = IF MetadataAvailable(metadata) THEN "initSync" ELSE "awaitSelect"
    /\ UNCHANGED << stopPc, ctxDone, metadataChanged, priorityChan,
                    priorityServers, inFlight, semaphore, inflightWg, probes,
                    rows, metadata, call, ret, now, runLocals, events >>

\* the startup select: case <-s.ctx.Done(): return
AwaitCtxDone ==
    /\ pc = "awaitSelect"
    /\ ctxDone
    /\ pc' = "done"
    /\ UNCHANGED << stopPc, ctxDone, metadataChanged, priorityChan,
                    priorityServers, inFlight, semaphore, inflightWg, probes,
                    rows, metadata, call, ret, now, runLocals, events >>

\* the startup select: case <-metadataChanged
AwaitMetadataChanged ==
    /\ pc = "awaitSelect"
    /\ metadataChanged
    /\ metadataChanged' = FALSE
    /\ pc' = "await"
    /\ UNCHANGED << stopPc, ctxDone, priorityChan,
                    priorityServers, inFlight, semaphore, inflightWg, probes,
                    rows, metadata, call, ret, now, runLocals, events >>

\* the store statements of one syncServersFromMetadata call, each of which may fail
Synced ==
    \E ensureFailed \in {{}, CurrentServers(metadata)}, removeFailed \in BOOLEAN :
        rows' = syncServersFromMetadata(rows, metadata, ensureFailed, removeFailed)

\* the initial resync, then the ticker is created
InitialSync ==
    /\ pc = "initSync"
    /\ Synced
    /\ pc' = "wait"
    /\ UNCHANGED << stopPc, ctxDone, metadataChanged, priorityChan,
                    priorityServers, inFlight, semaphore, inflightWg, probes,
                    metadata, call, ret, now, runLocals, events >>

(***************************************************************************)
(* The run goroutine: the select of the main loop.  When several cases     *)
(* are ready, select takes any of them.                                    *)
(***************************************************************************)
\* case <-s.ctx.Done()
SelectCtxDone ==
    /\ pc = "wait"
    /\ ctxDone
    /\ pc' = "drain"
    /\ UNCHANGED << stopPc, ctxDone, metadataChanged, priorityChan,
                    priorityServers, inFlight, semaphore, inflightWg, probes,
                    rows, metadata, call, ret, now, runLocals, events >>

\* variant: run returns without inflightWg.Wait()
inflightWgNoWait == TRUE

\* inflightWg.Wait() returns
inflightWgWait == inflightWg = 0

\* variant: break instead of return, which leaves the select only
DrainThenLoop ==
    /\ pc = "drain"
    /\ inflightWgWait
    /\ pc' = "wait"
    /\ UNCHANGED << stopPc, ctxDone, metadataChanged, priorityChan,
                    priorityServers, inFlight, semaphore, inflightWg, probes,
                    rows, metadata, call, ret, now, runLocals, events >>

\* inflightWg.Wait(); return (ticker.Stop and s.wg.Done are deferred)
Drain ==
    /\ pc = "drain"
    /\ inflightWgWait
    /\ pc' = "done"
    /\ UNCHANGED << stopPc, ctxDone, metadataChanged, priorityChan,
                    priorityServers, inFlight, semaphore, inflightWg, probes,
                    rows, metadata, call, ret, now, runLocals, events >>

\* case <-metadataChanged: s.syncServersFromMetadata()
SelectMetadataChanged ==
    /\ pc = "wait"
    /\ metadataChanged
    /\ metadataChanged' = FALSE
    /\ Synced
    /\ UNCHANGED << pc, stopPc, ctxDone, priorityChan,
                    priorityServers, inFlight, semaphore, inflightWg, probes,
                    metadata, call, ret, now, runLocals, events >>

\* case priorityServer := <-s.priorityChan: s.addPriorityServer(priorityServer)
\* (the receive and the locked section are one step: between the two only
\* senders on priorityChan could tell the difference, and they see the same
\* free slot after this step)
SelectPriority ==
    /\ pc = "wait"
    /\ priorityChan # << >>
    /\ priorityServers' = addPriorityServer(priorityServers, Head(priorityChan))
    /\ priorityChan' = Tail(priorityChan)
    /\ UNCHANGED << pc, stopPc, ctxDone, metadataChanged,
                    inFlight, semaphore, inflightWg, probes, rows, metadata, call, ret, now,
                    runLocals, events >>

\* variant: the tick's locals outlive the tick
EndTickKeepingCandidates ==
    /\ pc' = "wait"
    /\ UNCHANGED << servers, scan, server >>

\* the tick ends: continue, or the end of the case body
EndTick ==
    /\ pc' = "wait"
    /\ servers' = << >>
    /\ scan' = 0
    /\ server' = NoServer

\* variant: return instead of continue when the query fails
SelectTickErrorReturning ==
    /\ pc = "wait"
    /\ Event
    /\ pc' = "done"
    /\ UNCHANGED << stopPc, ctxDone, metadataChanged, priorityChan,
                    priorityServers, inFlight, semaphore, inflightWg, probes,
                    rows, metadata, call, ret, now, runLocals >>

\* case <-ticker.C (the ticker may fire at any moment, so the case may be ready
\* at any moment): the priority list is copied under its lock and
\* s.store.GetServersNeedingCheck(...) returns an error
SelectTickError ==
    /\ pc = "wait"
    /\ Event
    /\ UNCHANGED << pc, stopPc, ctxDone, metadataChanged, priorityChan,
                    priorityServers, inFlight, semaphore, inflightWg, probes,
                    rows, metadata, call, ret, now, runLocals >>

\* variant: the tick takes the priority list and leaves the set empty
TickCaseDraining ==
    /\ pc = "wait"
    /\ LET priority == priorityServers
       IN  \E result \in GetServersNeedingCheck(rows, now, minCheckInterval,
                                                maxParallel + 1, priority,
                                                priorityMinInterval) :
              IF Len(result) = 0
              THEN UNCHANGED << pc, runLocals >>
              ELSE /\ servers' = result
                   /\ scan' = 1
                   /\ pc' = "scan"
                   /\ UNCHANGED server
    /\ priorityServers' = << >>
    /\ UNCHANGED << stopPc, ctxDone, metadataChanged, priorityChan,
                    inFlight, semaphore, inflightWg, probes,
                    rows, metadata, call, ret, now >>

\* the body of case <-ticker.C: the priority list is copied under its lock
\* and s.store.GetServersNeedingCheck(...) returns its candidates
TickCase ==
    /\ pc = "wait"
    /\ LET priority == priorityServers
       IN  \E result \in GetServersNeedingCheck(rows, now, minCheckInterval,
                                                maxParallel + 1, priority,
                                                priorityMinInterval) :
              IF Len(result) = 0
              THEN UNCHANGED << pc, runLocals >>
              ELSE /\ servers' = result
                   /\ scan' = 1
                   /\ pc' = "scan"
                   /\ UNCHANGED server
    /\ UNCHANGED << stopPc, ctxDone, metadataChanged, priorityChan,
                    priorityServers, inFlight, semaphore, inflightWg, probes,
                    rows, metadata, call, ret, now >>

\* case <-ticker.C, one firing of the ticker
SelectTick ==
    /\ Event
    /\ TickCase

\* one iteration of the candidate scan: s.markInFlight(srv.EntityID, srv.BaseURI)
Scan ==
    /\ pc = "scan"
    /\ LET srv == servers[scan]
       IN  IF markInFlight(inFlight, srv.EntityID, srv.BaseURI)
           THEN /\ inFlight' = markedInFlight(inFlight, srv.EntityID, srv.BaseURI)
                /\ server' = srv
                /\ pc' = "dispatch"
                /\ servers' = << >>
                /\ scan' = 0
           ELSE IF scan < Len(servers)
                THEN /\ scan' = scan + 1
                     /\ UNCHANGED << pc, inFlight, servers, server >>
                ELSE /\ EndTick
                     /\ UNCHANGED inFlight
    /\ UNCHANGED << stopPc, ctxDone, metadataChanged, priorityChan,
                    priorityServers, semaphore, inflightWg, probes,
                    rows, metadata, call, ret, now, events >>

\* variant: a lookup miss ends the tick without clearing the mark
DispatchNoMetadataLeavingMark ==
    /\ pc = "dispatch"
    /\ ~getServerFromMetadata(metadata, server.EntityID, server.BaseURI)
    /\ EndTick
    /\ UNCHANGED << stopPc, ctxDone, metadataChanged, priorityChan,
                    priorityServers, inFlight, semaphore, inflightWg, probes,
                    rows, metadata, call, ret, now, events >>

\* s.getServerFromMetadata(server.EntityID, server.BaseURI) finds nothing:
\* clearInFlight and continue
DispatchNoMetadata ==
    /\ pc = "dispatch"
    /\ ~getServerFromMetadata(metadata, server.EntityID, server.BaseURI)
    /\ inFlight' = clearInFlight(inFlight, server.EntityID, server.BaseURI)
    /\ EndTick
    /\ UNCHANGED << stopPc, ctxDone, metadataChanged, priorityChan,
                    priorityServers, semaphore, inflightWg, probes,
                    rows, metadata, call, ret, now, events >>

\* variant: a failed acquire leaves the in-flight mark of the chosen key
DispatchLeavingMark ==
    /\ pc = "dispatch"
    /\ getServerFromMetadata(metadata, server.EntityID, server.BaseURI)
    /\ IF semaphoreHasRoom(semaphore)
       THEN /\ semaphore' = semaphore + 1
            /\ inflightWg' = inflightWg + 1
            /\ probes' = probes (+) One(Probe(server, "check", 0, FALSE))
            /\ UNCHANGED inFlight
       ELSE UNCHANGED << inFlight, semaphore, inflightWg, probes >>
    /\ EndTick
    /\ UNCHANGED << stopPc, ctxDone, metadataChanged, priorityChan,
                    priorityServers, rows, metadata, call, ret, now, events >>

\* the server is in the metadata;
\* select { case semaphore <- struct{}{}: inflightWg.Add(1); go func...
\*          default: s.clearInFlight(...) }
Dispatch ==
    /\ pc = "dispatch"
    /\ getServerFromMetadata(metadata, server.EntityID, server.BaseURI)
    /\ IF semaphoreHasRoom(semaphore)
       THEN /\ semaphore' = semaphore + 1
            /\ inflightWg' = inflightWg + 1
            /\ probes' = probes (+) One(Probe(server, "check", 0, FALSE))
            /\ UNCHANGED inFlight
       ELSE /\ inFlight' = clearInFlight(inFlight, server.EntityID, server.BaseURI)
            /\ UNCHANGED << semaphore, inflightWg, probes >>
    /\ EndTick
    /\ UNCHANGED << stopPc, ctxDone, metadataChanged, priorityChan,
                    priorityServers, rows, metadata, call, ret, now, events >>

(***************************************************************************)
(* A probe goroutine: checkServer, removePriorityServer, then the deferred *)
(* function  <-semaphore; inflightWg.Done(); s.clearInFlight(...).         *)
(***************************************************************************)
Advance(p, q) == probes' = (probes (-) One(p)) (+) One(q)

\* s.checker.Check(entityID, server): CheckedAt is the time the check starts
ProbeCheck(p) ==
    /\ p.pc = "check"
    /\ \E healthy \in BOOLEAN : Advance(p, Probe(p.key, "save", now, healthy))
    /\ UNCHANGED << pc, stopPc, ctxDone, metadataChanged,
                    priorityChan, priorityServers, inFlight, semaphore,
                    inflightWg, rows, metadata, call, ret, now, runLocals,
                    events >>

\* variant: a failed SaveStatus ends the goroutine without its cleanup
ProbeSaveAborting(p) ==
    /\ p.pc = "save"
    /\ \/ /\ rows' = SaveStatus(rows, p.key, CheckedRow(p.CheckedAt, p.IsHealthy))
          /\ Advance(p, Probe(p.key, "removePriority", 0, FALSE))
       \/ /\ UNCHANGED rows
          /\ probes' = probes (-) One(p)
    /\ UNCHANGED << pc, stopPc, ctxDone, metadataChanged,
                    priorityChan, priorityServers, inFlight, semaphore,
                    inflightWg, metadata, call, ret, now, runLocals,
                    events >>

\* s.store.SaveStatus(status), which may return an error
ProbeSave(p) ==
    /\ p.pc = "save"
    /\ \/ rows' = SaveStatus(rows, p.key, CheckedRow(p.CheckedAt, p.IsHealthy))
       \/ UNCHANGED rows
    /\ Advance(p, Probe(p.key, "removePriority", 0, FALSE))
    /\ UNCHANGED << pc, stopPc, ctxDone, metadataChanged,
                    priorityChan, priorityServers, inFlight, semaphore,
                    inflightWg, metadata, call, ret, now, runLocals,
                    events >>

\* s.removePriorityServer(store.ServerKey{...})
ProbeRemovePriority(p) ==
    /\ p.pc = "removePriority"
    /\ priorityServers' = removePriorityServer(priorityServers, p.key)
    /\ Advance(p, [p EXCEPT !.pc = "release"])
    /\ UNCHANGED << pc, stopPc, ctxDone, metadataChanged,
                    priorityChan, inFlight, semaphore, inflightWg, rows,
                    metadata, call, ret, now, runLocals, events >>

\* variant: the mark is cleared together with the release of the permit
ProbeReleaseClearing(p) ==
    /\ p.pc = "release"
    /\ semaphore' = semaphore - 1
    /\ inFlight' = clearInFlight(inFlight, p.key.EntityID, p.key.BaseURI)
    /\ Advance(p, [p EXCEPT !.pc = "wgDone"])
    /\ UNCHANGED << pc, stopPc, ctxDone, metadataChanged,
                    priorityChan, priorityServers, inflightWg, rows,
                    metadata, call, ret, now, runLocals, events >>

\* deferred: <-semaphore
ProbeRelease(p) ==
    /\ p.pc = "release"
    /\ semaphore' = semaphore - 1
    /\ Advance(p, [p EXCEPT !.pc = "wgDone"])
    /\ UNCHANGED << pc, stopPc, ctxDone, metadataChanged,
                    priorityChan, priorityServers, inFlight, inflightWg, rows,
                    metadata, call, ret, now, runLocals, events >>

\* deferred: inflightWg.Done()
ProbeWgDone(p) ==
    /\ p.pc = "wgDone"
    /\ inflightWg' = inflightWg - 1
    /\ Advance(p, [p EXCEPT !.pc = "clearInFlight"])
    /\ UNCHANGED << pc, stopPc, ctxDone, metadataChanged,
                    priorityChan, priorityServers, inFlight, semaphore, rows,
                    metadata, call, ret, now, runLocals, events >>

\* deferred: s.clearInFlight(entityID, baseURI); the goroutine ends
ProbeClearInFlight(p) ==
    /\ p.pc = "clearInFlight"
    /\ inFlight' = clearInFlight(inFlight, p.key.EntityID, p.key.BaseURI)
    /\ probes' = probes (-) One(p)
    /\ UNCHANGED << pc, stopPc, ctxDone, metadataChanged,
                    priorityChan, priorityServers, semaphore, inflightWg, rows,
                    metadata, call, ret, now, runLocals, events >>

ProbeStep ==
    \E p \in BagToSet(probes) :
        \/ ProbeCheck(p)
        \/ ProbeSave(p)
        \/ ProbeRemovePriority(p)
        \/ ProbeRelease(p)
        \/ ProbeWgDone(p)
        \/ ProbeClearInFlight(p)

(***************************************************************************)
(* The callers and the environment.                                        *)
(***************************************************************************)
\* RequestPriorityCheck: a non-blocking send on priorityChan
RequestPriorityCheck(k) ==
    /\ Event
    /\ IF priorityChanHasRoom(priorityChan)
       THEN priorityChan' = Append(priorityChan, k)
       ELSE UNCHANGED priorityChan
    /\ UNCHANGED << pc, stopPc, ctxDone, metadataChanged,
                    priorityServers, inFlight, semaphore, inflightWg, probes,
                    rows, metadata, call, ret, now, runLocals >>

Request == \E k \in ServerKey : RequestPriorityCheck(k)

\* Stop: s.cancel()
StopCancel ==
    /\ stopPc = "idle"
    /\ pc # "new"
    /\ Event
    /\ ctxDone' = TRUE
    /\ stopPc' = "waiting"
    /\ UNCHANGED << pc, metadataChanged, priorityChan,
                    priorityServers, inFlight, semaphore, inflightWg, probes,
                    rows, metadata, call, ret, now, runLocals >>

\* Stop: s.wg.Wait() returns once run has returned
StopReturn ==
    /\ stopPc = "waiting"
    /\ pc = "done"
    /\ stopPc' = "returned"
    /\ UNCHANGED << pc, ctxDone, metadataChanged, priorityChan,
                    priorityServers, inFlight, semaphore, inflightWg, probes,
                    rows, metadata, call, ret, now, runLocals, events >>

\* the metadata store loads a snapshot and notifies its listeners
MetadataUpdate ==
    /\ Event
    /\ metadata' \in MetadataValues
    /\ metadataChanged' = IF pc = "new" THEN metadataChanged ELSE TRUE
    /\ UNCHANGED << pc, stopPc, ctxDone, priorityChan,
                    priorityServers, inFlight, semaphore, inflightWg, probes,
                    rows, now, call, ret, runLocals >>

\* time passes
ClockTick ==
    /\ now < MaxTime
    /\ Event
    /\ now' = now + 1
    /\ UNCHANGED << pc, stopPc, ctxDone, metadataChanged,
                    priorityChan, priorityServers, inFlight, semaphore,
                    inflightWg, probes, rows, metadata, call, ret, runLocals >>

Next ==
    \/ Start
    \/ AwaitMetadata
    \/ AwaitCtxDone
    \/ AwaitMetadataChanged
    \/ InitialSync
    \/ SelectCtxDone
    \/ Drain
    \/ SelectMetadataChanged
    \/ SelectPriority
    \/ SelectTickError
    \/ SelectTick
    \/ Scan
    \/ DispatchNoMetadata
    \/ Dispatch
    \/ ProbeStep
    \/ Request
    \/ StopCancel
    \/ StopReturn
    \/ MetadataUpdate
    \/ ClockTick

Spec == Init /\ [][Next]_vars

(***************************************************************************)
(* Properties.                                                             *)
(***************************************************************************)
\* the stages in which a probe goroutine holds its permit
HoldingPermit == {"check", "save", "removePriority", "release"}

\* the stages before the goroutine has called inflightWg.Done()
BeforeWgDone == HoldingPermit \cup {"wgDone"}

\* this step is one call of syncServersFromMetadata by the run goroutine
ResyncStep ==
    \/ pc = "initSync" /\ pc' = "wait"
    \/ pc = "wait" /\ metadataChanged /\ ~metadataChanged'

\* this step is a RequestPriorityCheck that returned true
RequestAccepted == Len(priorityChan') > Len(priorityChan)

\* this step is the run goroutine receiving a request from priorityChan
RequestConsumed ==
    /\ pc = "wait"
    /\ priorityChan # << >>
    /\ priorityChan' = Tail(priorityChan)

\* C1: at any moment at most one probe goroutine exists for a ServerKey,
\* whichever path selected it.
C1_NoOverlappingChecks ==
    \A k \in ServerKey : ProbeCount(k) <= 1

\* the scan has just refused its first candidate, a priority-flagged key
\* whose probe is still running
C1_Witness ==
    /\ pc = "scan"
    /\ scan > 1
    /\ ProbeCount(servers[1]) = 1
    /\ servers[1] \in SeqToSet(priorityServers)

\* C2: never more than maxParallel probes hold a permit, the pool never
\* holds more than maxParallel permits, and a tick whose acquire fails
\* starts no probe.
C2_ParallelismBound ==
    [][ /\ StageCount(HoldingPermit)' <= maxParallel
        /\ semaphore' = StageCount(HoldingPermit)'
        /\ (pc = "dispatch" /\ pc' = "wait" /\ semaphore >= maxParallel =>
               probes' = probes)
      ]_vars

\* a tick has chosen a key that is in the metadata while every permit is taken
C2_Witness ==
    /\ pc = "dispatch"
    /\ getServerFromMetadata(metadata, server.EntityID, server.BaseURI)
    /\ semaphore = maxParallel

\* C3: when Stop has returned, run has returned and every probe goroutine
\* that is left has finished its check and its store write (it is past
\* inflightWg.Done()); and a probe goroutine only ever ends by running to
\* its last statement.
C3_StopWaitsForProbes ==
    [][ /\ stopPc' = "returned" => pc' = "done" /\ StageCount(BeforeWgDone)' = 0
        /\ \A p \in BagToSet(probes) :
              CopiesIn(p, probes') < CopiesIn(p, probes) =>
                 \/ p.pc = "clearInFlight"
                 \/ \E q \in BagToSet(probes') :
                       /\ q.key = p.key
                       /\ CopiesIn(q, probes') > CopiesIn(q, probes)
      ]_vars

\* Stop has returned and a probe that was dispatched before is past its write
C3_Witness ==
    /\ stopPc = "returned"
    /\ \E p \in BagToSet(probes) :
          /\ p.pc = "clearInFlight"
          /\ p.key \in DOMAIN rows
          /\ rows[p.key].checked

\* C4 (as claimed): once the context is cancelled the run goroutine at its
\* select starts no tick, and no probe is dispatched.
C4_NoTickAfterShutdown ==
    [][ ctxDone =>
          /\ (pc = "wait" => pc' # "scan")
          /\ BagCardinality(probes') <= BagCardinality(probes)
      ]_vars

\* C5 (as claimed): while the priority set holds maxPriorityServers keys, a
\* request for a further key returns false.
C5_FullSetRejects ==
    [][ Len(priorityServers) >= maxPriorityServers /\ RequestAccepted =>
          priorityChan'[Len(priorityChan')] \in SeqToSet(priorityServers)
      ]_vars

\* C6: the priority set never holds more than maxPriorityServers keys nor a
\* key twice, and consuming a request for a key already in it changes nothing.
C6_PrioritySetBounded ==
    [][ /\ Len(priorityServers') <= maxPriorityServers
        /\ \A i, j \in DOMAIN priorityServers' :
              i # j => priorityServers'[i] # priorityServers'[j]
        /\ RequestConsumed /\ Head(priorityChan) \in SeqToSet(priorityServers) =>
              priorityServers' = priorityServers
      ]_vars

\* a request for a key that is already in the priority set is about to be consumed
C6_Witness ==
    /\ pc = "wait"
    /\ Len(priorityServers) = maxPriorityServers
    /\ priorityChan # << >>
    /\ Head(priorityChan) \in SeqToSet(priorityServers)

\* C7: the removePriorityServer step of a probe of K leaves K out of the
\* priority set, whatever the verdict and whichever path selected K.
C7_CompletionClearsPriority ==
    [][ \A p \in BagToSet(probes) :
          p.pc = "removePriority" /\ CopiesIn(p, probes') < CopiesIn(p, probes) =>
             p.key \notin SeqToSet(priorityServers')
      ]_vars

\* a probe of a priority-flagged key has written its result and is about to
\* run removePriorityServer
C7_Witness ==
    \E p \in BagToSet(probes) :
        /\ p.pc = "removePriority"
        /\ p.key \in SeqToSet(priorityServers)
        /\ p.key \in DOMAIN rows
        /\ rows[p.key].checked

\* C8 (as claimed): with the run goroutine at its select and no change
\* notification pending, a key that is in neither the snapshot nor the store
\* and has no probe is not in the priority set.
C8_PriorityEntryDiesWithKey ==
    pc = "wait" /\ ~metadataChanged =>
       \A k \in SeqToSet(priorityServers) :
          \/ k \in DOMAIN rows
          \/ getServerFromMetadata(metadata, k.EntityID, k.BaseURI)
          \/ ProbeCount(k) > 0

\* C9: a resync without store error over a snapshot with a non-empty server
\* list leaves exactly the snapshot's keys in the table, and the rows that
\* existed for them are unchanged.
C9_ResyncPostcondition ==
    [][ /\ ResyncStep
        /\ ~metadata.isNil
        /\ CurrentServers(metadata) # {}
        /\ rows' = syncServersFromMetadata(rows, metadata, {}, FALSE)
        => /\ DOMAIN rows' = CurrentServers(metadata)
           /\ \A k \in DOMAIN rows \cap CurrentServers(metadata) : rows'[k] = rows[k]
      ]_vars

\* after a resync: the row of a key that left the snapshot is gone while its
\* probe, dispatched when the row existed, still runs; a checked row of a
\* snapshot key is still there
C9_Witness ==
    /\ pc = "wait"
    /\ ~metadataChanged
    /\ ~metadata.isNil
    /\ DOMAIN rows = CurrentServers(metadata)
    /\ \E k \in DOMAIN rows : rows[k].checked
    /\ \E p \in BagToSet(probes) :
          /\ p.pc \in {"check", "save"}
          /\ p.key \notin CurrentServers(metadata)

\* C10: RemoveServersNotIn with an empty list returns the table unchanged,
\* and a resync whose current-server list is empty leaves the table unchanged.
C10_EmptyResyncDeletesNothing ==
    [][ /\ RemoveServersNotIn(rows', {}) = rows'
        /\ ResyncStep /\ (metadata.isNil \/ CurrentServers(metadata) = {}) =>
              rows' = rows
      ]_vars

\* a resync over a snapshot without servers has run and the rows are still there
C10_Witness ==
    /\ pc = "wait"
    /\ ~metadataChanged
    /\ ~metadata.isNil
    /\ CurrentServers(metadata) = {}
    /\ \E k \in DOMAIN rows : rows[k].checked

\* C11 (as claimed): a row comes into existence only in a metadata resync;
\* no other step, in particular no probe writing its result, adds a key to
\* the table.
C11_RowsCreatedOnlyByResync ==
    [][ DOMAIN rows' \ DOMAIN rows # {} => ResyncStep ]_vars

\* the positions of the run goroutine before the tick loop
StartingUp == {"new", "await", "awaitSelect", "initSync"}

\* C12: before the tick loop is entered there is no probe, no in-flight mark,
\* no consumed priority request and no candidate list; the tick loop is
\* entered only through the initial resync, which is reached only when the
\* snapshot read was non-nil with at least one entity; and the startup select
\* is left only on shutdown or on a change notification.
C12_NothingBeforeInitialSync ==
    [][ /\ pc \in StartingUp =>
              /\ probes' = EmptyBag
              /\ inFlight' = {}
              /\ priorityServers' = << >>
              /\ servers' = << >>
              /\ Len(priorityChan') >= Len(priorityChan)
              /\ pc' \in StartingUp \cup {"wait", "done"}
              /\ (rows' # rows => pc = "initSync")
        /\ (pc' = "wait" /\ pc \in StartingUp => pc = "initSync")
        /\ (pc' = "initSync" /\ pc # "initSync" =>
              /\ pc = "await"
              /\ ~metadata.isNil
              /\ DOMAIN metadata.Entities # {})
        /\ (pc = "awaitSelect" /\ pc' # pc =>
              \/ ctxDone /\ pc' = "done"
              \/ metadataChanged /\ ~metadataChanged' /\ pc' = "await")
      ]_vars

\* run is blocked in its startup select without usable metadata while a
\* priority request is waiting in the channel
C12_Witness ==
    /\ pc = "awaitSelect"
    /\ ~ctxDone
    /\ ~metadataChanged
    /\ metadata.isNil \/ DOMAIN metadata.Entities = {}
    /\ priorityChan # << >>

\* C13: the number of probes grows only in the dispatch step that ends a
\* tick, and then by one; a tick passes the scan and the dispatch at most
\* once; and whenever the loop is back at its select the tick's candidate
\* list and chosen candidate are gone.
C13_OneDispatchPerTick ==
    [][ /\ (BagCardinality(probes') > BagCardinality(probes) =>
              /\ pc = "dispatch"
              /\ pc' = "wait"
              /\ BagCardinality(probes') = BagCardinality(probes) + 1)
        /\ (pc' = "dispatch" /\ pc # "dispatch" => pc = "scan")
        /\ (pc' = "scan" /\ pc # "scan" => pc = "wait")
        /\ (pc = "dispatch" /\ pc' # pc => pc' = "wait")
        /\ (pc' = "wait" =>
              servers' = << >> /\ scan' = 0 /\ server' = NoServer)
      ]_vars

\* the scan is at its last candidate, which is in flight: the tick is about
\* to end without a dispatch
C13_Witness ==
    /\ pc = "scan"
    /\ scan = Len(servers)
    /\ ~markInFlight(inFlight, servers[scan].EntityID, servers[scan].BaseURI)

\* C15: the row of a key changes only in two ways: a resync deletes it or
\* creates it all-null, or the probe of that key writes its own result
\* (the time its check started and its verdict) in its SaveStatus step; and a
\* row never holds a time later than the clock.  With at most one probe per
\* key, a row therefore holds the result of the last probe of its key whose
\* write succeeded, or is all-null if it was created after that write.
C15_RowsHoldLastResult ==
    [][ /\ rows' # rows => \A k \in ServerKey :
              LET had == k \in DOMAIN rows
                  has == k \in DOMAIN rows'
              IN  (had # has \/ (had /\ has /\ rows'[k] # rows[k])) =>
                     \/ /\ ResyncStep
                        /\ \/ ~has
                           \/ /\ ~had
                              /\ rows'[k] = [checked |-> FALSE, LastChecked |-> 0,
                                             IsHealthy |-> FALSE]
                     \/ \E p \in BagToSet(probes) :
                           /\ p.key = k
                           /\ p.pc = "save"
                           /\ CopiesIn(p, probes') < CopiesIn(p, probes)
                           /\ has
                           /\ rows'[k] = [checked |-> TRUE,
                                          LastChecked |-> p.CheckedAt,
                                          IsHealthy |-> p.IsHealthy]
        /\ \A k \in DOMAIN rows' :
              rows'[k].checked => rows'[k].LastChecked <= now'
      ]_vars

\* no probe of a key is running and its row holds a healthy result of an
\* earlier time
C15_Witness ==
    \E k \in DOMAIN rows :
        /\ ProbeCount(k) = 0
        /\ rows[k].checked
        /\ rows[k].IsHealthy
        /\ rows[k].LastChecked < now

(***************************************************************************)
(* The selection query on its own: the table, the clock and the priority   *)
(* list are drawn from every value the scheduler can hand to the store,    *)
(* and one step is one call with the scheduler's intervals and any limit.  *)
(***************************************************************************)
MaxLimit == 3

\* a row as EnsureServerExists or SaveStatus leaves it, last checked by time t
RowValues(t) == {NullRow} \cup { CheckedRow(c, TRUE) : c \in 0..t }

\* the tables over every set of keys at time t
Tables(t) == UNION { [S -> RowValues(t)] : S \in SUBSET ServerKey }

\* the lists addPriorityServer can build
PriorityLists ==
    { s \in UNION { [1..n -> ServerKey] : n \in 0..maxPriorityServers } :
        \A i, j \in DOMAIN s : i # j => s[i] # s[j] }

\* the query of README.md, which has no priority argument
GetServersNeedingCheckNoPriority(table, t, minInterval, limit) ==
    { Limit(rest, limit) : rest \in OrdinaryCandidates(table, t, minInterval, {}) }

QueryInit ==
    /\ pc = "wait"
    /\ stopPc = "idle"
    /\ ctxDone = FALSE
    /\ metadataChanged = FALSE
    /\ priorityChan = << >>
    /\ priorityServers \in PriorityLists
    /\ inFlight = {}
    /\ semaphore = 0
    /\ inflightWg = 0
    /\ probes = EmptyBag
    /\ now \in 0..MaxTime
    /\ rows \in Tables(now)
    /\ metadata = Snapshot([e \in EntityIDs |-> BaseURIs(e)])
    /\ servers = << >>
    /\ scan = 0
    /\ server = NoServer
    /\ events = 0
    /\ call = NoCall
    /\ ret = NoReturn

\* servers, err := s.store.GetServersNeedingCheck(...) has returned
QueryCall ==
    /\ pc = "wait"
    /\ \E limit \in 0..MaxLimit :
          servers' \in GetServersNeedingCheck(rows, now, minCheckInterval, limit,
                                              priorityServers, priorityMinInterval)
    /\ pc' = "queried"
    /\ UNCHANGED << stopPc, ctxDone, metadataChanged, priorityChan,
                    priorityServers, inFlight, semaphore, inflightWg, probes,
                    rows, metadata, call, ret, now, scan, server, events >>

QueryNext == QueryCall

QuerySpec == QueryInit /\ [][QueryNext]_vars

\* no key occurs twice in s
NoRepeat(s) == \A i, j \in DOMAIN s : i # j => s[i] # s[j]

\* C16: at the call, for every table, clock, limit and interval, each result of the
\* query without priority list holds exactly min(limit, number of eligible
\* rows) keys, all of them eligible (never checked, or last checked before
\* now - minInterval), none twice, never-checked rows ahead of checked ones
\* and checked ones by ascending time, and no eligible row left out sorts
\* strictly ahead of a returned one.
C16_OrdinarySelection ==
    pc = "wait" =>
    \A limit \in 0..MaxLimit, minInterval \in 0..MaxTime :
       LET eligible == { k \in DOMAIN rows :
                           \/ ~rows[k].checked
                           \/ rows[k].LastChecked < now - minInterval }
           ahead(a, b) == \/ ~rows[a].checked /\ rows[b].checked
                          \/ /\ rows[a].checked
                             /\ rows[b].checked
                             /\ rows[a].LastChecked < rows[b].LastChecked
       IN  \A result \in GetServersNeedingCheckNoPriority(rows, now, minInterval, limit) :
              /\ Len(result) = IF limit < Cardinality(eligible)
                               THEN limit
                               ELSE Cardinality(eligible)
              /\ SeqToSet(result) \subseteq eligible
              /\ NoRepeat(result)
              /\ \A i, j \in DOMAIN result : i < j => ~ahead(result[j], result[i])
              /\ \A k \in eligible \ SeqToSet(result), i \in DOMAIN result :
                    ~ahead(k, result[i])

\* a call without priority list returned a never-checked row ahead of a
\* stale one while a recently checked row was left out
C16_Witness ==
    /\ pc = "queried"
    /\ priorityServers = << >>
    /\ Len(servers) = 2
    /\ ~rows[servers[1]].checked
    /\ rows[servers[2]].checked
    /\ \E k \in DOMAIN rows \ SeqToSet(servers) :
          rows[k].checked /\ rows[k].LastChecked > rows[servers[2]].LastChecked

\* C17: at the call, for every table, clock, priority list, limit and pair of intervals,
\* each result starts with the priority-flagged keys that have a row and
\* were never checked or last checked before now - priorityInterval, in the
\* order of the priority list (as far as the limit allows), whatever
\* minInterval says about them, and holds no key twice.
C17_PrioritySelection ==
    pc = "wait" =>
    \A limit \in 0..MaxLimit, minInterval \in 0..MaxTime,
       priorityInterval \in 0..MaxTime :
       LET due(k) == /\ k \in DOMAIN rows
                     /\ \/ ~rows[k].checked
                        \/ rows[k].LastChecked < now - priorityInterval
           first == SelectSeq(priorityServers, due)
       IN  \A result \in GetServersNeedingCheck(rows, now, minInterval, limit,
                                                priorityServers, priorityInterval) :
              /\ NoRepeat(result)
              /\ \A i \in DOMAIN first :
                    i <= limit => i \in DOMAIN result /\ result[i] = first[i]

\* a call returned a priority key that was checked within minCheckInterval
\* but not within priorityMinInterval, ahead of a never-checked row
C17_Witness ==
    /\ pc = "queried"
    /\ Len(servers) >= 2
    /\ servers[1] \in SeqToSet(priorityServers)
    /\ rows[servers[1]].checked
    /\ rows[servers[1]].LastChecked = now - minCheckInterval
    /\ ~rows[servers[2]].checked

\* C18 (as claimed): a probe of a key that is flagged for a priority check
\* (in the priority set, or accepted and waiting in the channel) is
\* dispatched only if the key's row was never checked or was last checked
\* before now - priorityMinInterval.
C18_NoRecheckWithinPriorityInterval ==
    [][ \A k \in ServerKey :
          /\ ProbeCount(k)' > ProbeCount(k)
          /\ k \in SeqToSet(priorityServers) \cup SeqToSet(priorityChan)
          /\ k \in DOMAIN rows
          => \/ ~rows[k].checked
             \/ rows[k].LastChecked < now - priorityMinInterval
      ]_vars

\* C19: at the call, for every input, no result is longer than the limit, and when more priority keys are
\* due than the limit allows the result is the first limit of them in the
\* order of the priority list.
C19_LimitRespected ==
    pc = "wait" =>
    \A limit \in 0..MaxLimit, minInterval \in 0..MaxTime,
       priorityInterval \in 0..MaxTime :
       LET due(k) == /\ k \in DOMAIN rows
                     /\ \/ ~rows[k].checked
                        \/ rows[k].LastChecked < now - priorityInterval
           first == SelectSeq(priorityServers, due)
       IN  \A result \in GetServersNeedingCheck(rows, now, minInterval, limit,
                                                priorityServers, priorityInterval) :
              /\ Len(result) <= limit
              /\ Len(first) > limit => result = SubSeq(first, 1, limit)

\* a call with two due priority keys returned only the first of them
C19_Witness ==
    /\ pc = "queried"
    /\ Len(priorityServers) = 2
    /\ \A i \in DOMAIN priorityServers :
          priorityServers[i] \in DOMAIN rows /\ ~rows[priorityServers[i]].checked
    /\ servers = << priorityServers[1] >>

\* C20: at the call, for every input, no result holds a key without a row, and the results are those of
\* the same call with the row-less keys taken out of the priority list.
C20_RowlessPrioritySkipped ==
    pc = "wait" =>
    \A limit \in 0..MaxLimit, minInterval \in 0..MaxTime,
       priorityInterval \in 0..MaxTime :
       LET hasRow(k) == k \in DOMAIN rows
           known == SelectSeq(priorityServers, hasRow)
       IN  /\ GetServersNeedingCheck(rows, now, minInterval, limit,
                                     priorityServers, priorityInterval)
              = GetServersNeedingCheck(rows, now, minInterval, limit,
                                       known, priorityInterval)
           /\ \A result \in GetServersNeedingCheck(rows, now, minInterval, limit,
                                                   priorityServers, priorityInterval) :
                 SeqToSet(result) \subseteq DOMAIN rows

\* a call whose priority list starts with a key without a row returned the
\* row of another key
C20_Witness ==
    /\ pc = "queried"
    /\ priorityServers # << >>
    /\ priorityServers[1] \notin DOMAIN rows
    /\ servers # << >>

(***************************************************************************)
(* The scheduler left running: the ticker fires for ever, the store does   *)
(* not fail and Stop is not called.  The callers and the metadata store    *)
(* take finitely many steps, so the snapshot stops changing.  Each         *)
(* goroutine that can take a step eventually does, and a case of a select  *)
(* that is ready again and again is eventually taken.                      *)
(***************************************************************************)
\* syncServersFromMetadata without a store error
SyncedOk == rows' = syncServersFromMetadata(rows, metadata, {}, FALSE)

InitialSyncOk == InitialSync /\ SyncedOk

SelectMetadataChangedOk == SelectMetadataChanged /\ SyncedOk

\* case <-ticker.C, the ticker firing as often as the loop comes round
LiveTick == TickCase /\ UNCHANGED events

\* checkServer whose SaveStatus returns no error
ProbeSaveOk(p) ==
    /\ ProbeSave(p)
    /\ rows' = SaveStatus(rows, p.key, CheckedRow(p.CheckedAt, p.IsHealthy))

\* the check of a server whose certificate is in order
LiveProbeCheck(p) ==
    /\ ProbeCheck(p)
    /\ \A q \in BagToSet(probes') : q.pc = "save" => q.IsHealthy

LiveProbeStep ==
    \E p \in BagToSet(probes) :
        \/ LiveProbeCheck(p)
        \/ ProbeSaveOk(p)
        \/ ProbeRemovePriority(p)
        \/ ProbeRelease(p)
        \/ ProbeWgDone(p)
        \/ ProbeClearInFlight(p)

\* the steps of run other than the cases of its main select
RunStep ==
    \/ Start
    \/ AwaitMetadata
    \/ InitialSyncOk
    \/ Scan
    \/ DispatchNoMetadata
    \/ Dispatch

\* the federation starts with every server published
LiveInit ==
    /\ Init
    /\ metadata = Snapshot([e \in EntityIDs |-> BaseURIs(e)])

\* the metadata store loads a snapshot in which servers have been withdrawn
LiveMetadataUpdate ==
    /\ MetadataUpdate
    /\ metadata' = Snapshot([e \in { <<"e">> } |-> { <<"u">> }])

\* a caller asks for an expedited check of a server that is later withdrawn
LiveRequest == RequestPriorityCheck(Key(<<"e">>, <<"u", "|", "u">>))

LiveNext ==
    \/ RunStep
    \/ SelectMetadataChangedOk
    \/ SelectPriority
    \/ LiveTick
    \/ LiveProbeStep
    \/ LiveRequest
    \/ LiveMetadataUpdate
    \/ ClockTick

LiveFairness ==
    /\ WF_vars(RunStep)
    /\ SF_vars(SelectMetadataChangedOk)
    /\ SF_vars(SelectPriority)
    /\ SF_vars(LiveTick)
    /\ WF_vars(LiveProbeStep)

LiveSpec == LiveInit /\ [][LiveNext]_vars /\ LiveFairness

\* k has a row, is in the snapshot and its last check is absent or older
\* than minCheckInterval
Eligible(k) ==
    /\ k \in DOMAIN rows
    /\ getServerFromMetadata(metadata, k.EntityID, k.BaseURI)
    /\ \/ ~rows[k].checked
       \/ rows[k].LastChecked < now - minCheckInterval

\* C14 (as claimed): a key that is eligible is eventually probed, unless it
\* leaves the snapshot or loses its row first.
C14_NoStarvation ==
    \A k \in ServerKey :
        Eligible(k) ~>
            \/ ProbeCount(k) > 0
            \/ k \notin DOMAIN rows
            \/ ~getServerFromMetadata(metadata, k.EntityID, k.BaseURI)

(***************************************************************************)
(* The checker.  A Go string is the sequence of its characters, so that    *)
(* case folding, prefixes, suffixes and splitting are computed on it.      *)
(***************************************************************************)
\* the longest host name drawn
MaxNameLen == 5

\* the most pins a server's trust anchor is drawn with
MaxPins == 2

\* unicode.ToLower on the letters that occur
lowerRune(c) ==
    CASE c = "A" -> "a"
      [] c = "B" -> "b"
      [] OTHER -> c

\* strings.ToLower
ToLower(s) == [i \in DOMAIN s |-> lowerRune(s[i])]

\* strings.HasPrefix
HasPrefix(s, prefix) ==
    /\ Len(s) >= Len(prefix)
    /\ SubSeq(s, 1, Len(prefix)) = prefix

\* strings.HasSuffix
HasSuffix(s, suffix) ==
    /\ Len(s) >= Len(suffix)
    /\ SubSeq(s, Len(s) - Len(suffix) + 1, Len(s)) = suffix

\* strings.TrimSuffix
TrimSuffix(s, suffix) ==
    IF HasSuffix(s, suffix) THEN SubSeq(s, 1, Len(s) - Len(suffix)) ELSE s

\* variant: the wildcard's label is not searched for a dot
ContainsNothing(s, c) == FALSE

\* strings.Contains for a one-character substring
Contains(s, c) == \E i \in DOMAIN s : s[i] = c

\* strings.Index for a substring: the first position it starts at, 0 if none
Index(s, sub) ==
    LET at == { i \in 1..(Len(s) - Len(sub) + 1) :
                   SubSeq(s, i, i + Len(sub) - 1) = sub }
    IN  IF at = {} THEN 0 ELSE CHOOSE i \in at : \A j \in at : i <= j

\* matchHostname: a pattern, possibly with a wildcard, against a host name
matchHostname(pattern, hostname) ==
    LET p == ToLower(pattern)
        h == ToLower(hostname)
    IN  \/ p = h
        \/ /\ HasPrefix(p, << "*", "." >>)
           /\ LET suffix == Tail(p)
              IN  /\ HasSuffix(h, suffix)
                  /\ LET prefix == TrimSuffix(h, suffix)
                     IN  ~Contains(prefix, ".") /\ prefix # << >>

\* the decimal digits and the number a digit stands for
Digits == << "0", "1", "2", "3", "4", "5", "6", "7", "8", "9" >>

IsDigit(c) == \E d \in DOMAIN Digits : Digits[d] = c

DigitValue(c) == (CHOOSE d \in DOMAIN Digits : Digits[d] = c) - 1

RECURSIVE Decimal(_)
Decimal(s) ==
    IF s = << >>
    THEN 0
    ELSE 10 * Decimal(SubSeq(s, 1, Len(s) - 1)) + DigitValue(s[Len(s)])

\* the fields of s between the separators
RECURSIVE Split(_, _)
Split(s, sep) ==
    LET i == Index(s, << sep >>)
    IN  IF i = 0
        THEN << s >>
        ELSE << SubSeq(s, 1, i - 1) >> \o Split(SubSeq(s, i + 1, Len(s)), sep)

\* no address: what net.ParseIP returns for a string that is not one
NoIP == << >>

\* one field of a dotted-decimal address: 1 to 3 digits, no leading zero,
\* at most 255
IsOctet(f) ==
    /\ Len(f) \in 1..3
    /\ \A i \in DOMAIN f : IsDigit(f[i])
    /\ Len(f) > 1 => f[1] # "0"
    /\ Decimal(f) <= 255

\* net.ParseIP on a string without colons: the four bytes of a
\* dotted-decimal IPv4 address, or nil
ParseIP(s) ==
    LET fields == Split(s, ".")
    IN  IF Len(fields) = 4 /\ \A i \in 1..4 : IsOctet(fields[i])
        THEN [i \in 1..4 |-> Decimal(fields[i])]
        ELSE NoIP

\* matchesHostname: the CN, then the DNS SANs, then the IP SANs
matchesHostname(cert, hostname) ==
    \/ matchHostname(cert.Subject.CommonName, hostname)
    \/ \E i \in DOMAIN cert.DNSNames : matchHostname(cert.DNSNames[i], hostname)
    \/ LET ip == ParseIP(hostname)
       IN  /\ ip # NoIP
           /\ \E i \in DOMAIN cert.IPAddresses : cert.IPAddresses[i] = ip

\* variant: the algorithm label of a pin is not looked at
matchesPinAnyAlg(fingerprint, pins) ==
    \E i \in DOMAIN pins : pins[i].Digest = fingerprint

\* matchesPin: some pin is a sha256 pin with this digest
matchesPin(fingerprint, pins) ==
    \E i \in DOMAIN pins :
        pins[i].Alg = "sha256" /\ pins[i].Digest = fingerprint

\* parseBaseURI: url.Parse, then Hostname() and Port() of the authority
\* between "://" and the next "/".  url.Parse fails on a "%" that does not
\* start an escape and on a port that is not a number; a URI without an
\* authority has no host.
parseBaseURI(baseURI) ==
    LET failed == [err |-> TRUE, host |-> << >>, port |-> << >>]
        start == Index(baseURI, << ":", "/", "/" >>)
        rest == IF start = 0
                THEN << >>
                ELSE SubSeq(baseURI, start + 3, Len(baseURI))
        slash == Index(rest, << "/" >>)
        authority == IF slash = 0 THEN rest ELSE SubSeq(rest, 1, slash - 1)
        colon == Index(authority, << ":" >>)
        host == IF colon = 0 THEN authority ELSE SubSeq(authority, 1, colon - 1)
        port == IF colon = 0
                THEN << >>
                ELSE SubSeq(authority, colon + 1, Len(authority))
    IN  IF Index(baseURI, << "%" >>) # 0
        THEN failed
        ELSE IF \E i \in DOMAIN port : ~IsDigit(port[i])
        THEN failed
        ELSE IF host = << >>
        THEN failed
        ELSE [err |-> FALSE, host |-> host,
              port |-> IF port = << >> THEN << "4", "4", "3" >> ELSE port]

\* a *time.Time or *bool that is nil, and one that points to v
NilPointer == [isNil |-> TRUE, val |-> 0]

Pointer(v) == [isNil |-> FALSE, val |-> v]

\* util.Fingerprint: a digest of the raw certificate
Fingerprint(cert) == << "#" >> \o cert.Raw

\* variant: a certificate that expires at this very moment counts as expired
AfterOrAt(t, u) == t >= u

\* time.Time.After
After(t, u) == t > u

\* variant: the pins are verified before the host name
CheckPinsFirst(entityID, srv, peer, checkedAt, verifiedAt) ==
    LET result == [EntityID |-> entityID, BaseURI |-> srv.BaseURI,
                   IsHealthy |-> FALSE, ErrorMessage |-> "",
                   CertExpires |-> NilPointer, CertCN |-> << >>,
                   CertFingerprint |-> << >>, CheckedAt |-> checkedAt]
        parsed == parseBaseURI(srv.BaseURI)
        cert == peer.cert
        withCert == [result EXCEPT !.CertCN = cert.Subject.CommonName,
                                   !.CertExpires = Pointer(cert.NotAfter),
                                   !.CertFingerprint = Fingerprint(cert)]
    IN  IF parsed.err
        THEN [result EXCEPT !.ErrorMessage = "invalid base_uri"]
        ELSE IF peer.err
        THEN [result EXCEPT !.ErrorMessage = "TLS connection failed"]
        ELSE IF After(verifiedAt, cert.NotAfter)
        THEN [withCert EXCEPT !.ErrorMessage = "certificate expired"]
        ELSE IF ~matchesPin(withCert.CertFingerprint, srv.Pins)
        THEN [withCert EXCEPT !.ErrorMessage =
                 "certificate fingerprint does not match any pin in metadata"]
        ELSE IF ~matchesHostname(cert, parsed.host)
        THEN [withCert EXCEPT !.ErrorMessage =
                 "certificate CN and SANs do not match hostname"]
        ELSE [withCert EXCEPT !.IsHealthy = TRUE]

\* RealChecker.Check.  peer is what getTLSCertificate returns for the host
\* and port: an error (the dial failed or no certificate was received) or
\* the certificate the server presented.  checkedAt and verifiedAt are the
\* two readings of time.Now().  ErrorMessage is the fixed text of the
\* message's format.
Check(entityID, srv, peer, checkedAt, verifiedAt) ==
    LET result == [EntityID |-> entityID, BaseURI |-> srv.BaseURI,
                   IsHealthy |-> FALSE, ErrorMessage |-> "",
                   CertExpires |-> NilPointer, CertCN |-> << >>,
                   CertFingerprint |-> << >>, CheckedAt |-> checkedAt]
        parsed == parseBaseURI(srv.BaseURI)
        cert == peer.cert
        withCert == [result EXCEPT !.CertCN = cert.Subject.CommonName,
                                   !.CertExpires = Pointer(cert.NotAfter),
                                   !.CertFingerprint = Fingerprint(cert)]
    IN  IF parsed.err
        THEN [result EXCEPT !.ErrorMessage = "invalid base_uri"]
        ELSE IF peer.err
        THEN [result EXCEPT !.ErrorMessage = "TLS connection failed"]
        ELSE IF After(verifiedAt, cert.NotAfter)
        THEN [withCert EXCEPT !.ErrorMessage = "certificate expired"]
        ELSE IF ~matchesHostname(cert, parsed.host)
        THEN [withCert EXCEPT !.ErrorMessage =
                 "certificate CN and SANs do not match hostname"]
        ELSE IF ~matchesPin(withCert.CertFingerprint, srv.Pins)
        THEN [withCert EXCEPT !.ErrorMessage =
                 "certificate fingerprint does not match any pin in metadata"]
        ELSE [withCert EXCEPT !.IsHealthy = TRUE]

(***************************************************************************)
(* One call of Check on its own: the server, what the network presents     *)
(* and the clock are drawn, and the one step is the call returning.        *)
(***************************************************************************)
\* every string of at most n characters of chars
Strings(chars, n) == UNION { [1..k -> chars] : k \in 0..n }

\* the scheduler has not been started
Idle ==
    /\ pc = "new"
    /\ stopPc = "idle"
    /\ ctxDone = FALSE
    /\ metadataChanged = FALSE
    /\ priorityChan = << >>
    /\ priorityServers = << >>
    /\ inFlight = {}
    /\ semaphore = 0
    /\ inflightWg = 0
    /\ probes = EmptyBag
    /\ metadata = NilMetadata
    /\ servers = << >>
    /\ scan = 0
    /\ server = NoServer
    /\ events = 0

\* base URIs: a host, a host in capitals with a port, an address, no host,
\* a malformed escape
CheckURIs ==
    { << "s", ":", "/", "/", "a", ".", "a" >>,
      << "s", ":", "/", "/", "A", ".", "a", ":", "8" >>,
      << "s", ":", "/", "/", "1", ".", "1", ".", "1", ".", "1", "/" >>,
      << "s", ":", "/", "/" >>,
      << "s", ":", "/", "/", "a", "%" >> }

\* fedtls.Pin values: the digest of the certificate under sha256 and under
\* another label, and another digest
PinValues ==
    { [Alg |-> "sha256", Digest |-> << "#", "x" >>],
      [Alg |-> "sha1", Digest |-> << "#", "x" >>],
      [Alg |-> "sha256", Digest |-> << "#", "y" >>] }

PinLists == UNION { [1..n -> PinValues] : n \in 0..MaxPins }

\* x509.Certificate: the fields Check reads
Certificate(cn, dns, ips, notAfter) ==
    [Subject |-> [CommonName |-> cn], DNSNames |-> dns, IPAddresses |-> ips,
     NotAfter |-> notAfter, Raw |-> << "x" >>]

Certificates ==
    { Certificate(cn, dns, ips, notAfter) :
        cn \in { << "a", ".", "a" >>, << "*", ".", "a" >>,
                 << "1", ".", "1", ".", "1", ".", "1" >>, << "b", ".", "b" >> },
        dns \in { << >>, << << "a", ".", "a" >> >>,
                  << << "b", ".", "b" >>, << "*", ".", "a" >> >> },
        ips \in { << >>, << << 1, 1, 1, 1 >> >>,
                  << << 1, 1, 1, 2 >>, << 1, 1, 1, 1 >> >> },
        notAfter \in 0..MaxTime }

\* what getTLSCertificate returns: an error, or the captured certificate
NoCertificate == Certificate(<< >>, << >>, << >>, 0)

Captured(cert) == [err |-> FALSE, cert |-> cert]

Peers ==
    { [err |-> TRUE, cert |-> NoCertificate] } \cup
    { Captured(cert) : cert \in Certificates }

CheckOf(baseURI, pins, peer) ==
    [op |-> "Check", entityID |-> << "e" >>,
     server |-> [BaseURI |-> baseURI, Pins |-> pins], peer |-> peer]

CheckInit ==
    /\ Idle
    /\ rows = NoRows
    /\ now \in 0..MaxTime
    /\ call \in { CheckOf(u, pins, peer) :
                    u \in CheckURIs, pins \in PinLists, peer \in Peers }
    /\ ret = NoReturn

\* result := s.checker.Check(entityID, server) returns; the clock may have
\* advanced between the two readings of time.Now()
CheckCall ==
    /\ call.op = "Check"
    /\ ret = NoReturn
    /\ \E t \in now..Min(now + 1, MaxTime) :
          /\ now' = t
          /\ ret' = [op |-> "Check",
                     result |-> Check(call.entityID, call.server, call.peer,
                                      now, t)]
    /\ UNCHANGED << pc, stopPc, ctxDone, metadataChanged, priorityChan,
                    priorityServers, inFlight, semaphore, inflightWg, probes,
                    rows, metadata, runLocals, events, call >>

CheckNext == CheckCall

CheckSpec == CheckInit /\ [][CheckNext]_vars

\* the characters of the host names and of the certificate names drawn
HostChars == { "a", "A", "." }

PatternChars == HostChars \cup { "*" }

\* host names against common names: every host name of at most MaxNameLen
\* characters, every common name two characters shorter, and a certificate
\* that is not expired and is pinned
HostnameInit ==
    /\ Idle
    /\ rows = NoRows
    /\ now = MaxTime
    /\ call \in { CheckOf(<< "s", ":", "/", "/" >> \o host,
                          << [Alg |-> "sha256", Digest |-> << "#", "x" >>] >>,
                          Captured(Certificate(cn, << >>, << >>, MaxTime))) :
                    host \in Strings(HostChars, MaxNameLen),
                    cn \in Strings(PatternChars, MaxNameLen - 2) }
    /\ ret = NoReturn

HostnameSpec == HostnameInit /\ [][CheckNext]_vars

(***************************************************************************)
(* Claims about the checker.                                               *)
(***************************************************************************)
\* C21: Check returns a result whatever happens; the result is healthy with an
\* empty message exactly when the base URI has a host, a certificate was
\* captured, it is not expired when verified, the host name matches and some
\* sha256 pin carries the certificate's digest; otherwise it is unhealthy
\* with a non-empty message.
C21_HealthyExactlyWhenAllPass ==
    ret.op = "Check" =>
        LET result == ret.result
            parsed == parseBaseURI(call.server.BaseURI)
            cert == call.peer.cert
            pins == call.server.Pins
            passes == /\ ~parsed.err
                      /\ ~call.peer.err
                      /\ now <= cert.NotAfter
                      /\ matchesHostname(cert, parsed.host)
                      /\ \E i \in DOMAIN pins :
                            /\ pins[i].Alg = "sha256"
                            /\ pins[i].Digest = << "#" >> \o cert.Raw
        IN  /\ result.IsHealthy <=> passes
            /\ result.IsHealthy => result.ErrorMessage = ""
            /\ ~result.IsHealthy => result.ErrorMessage # ""

\* Check has returned healthy for a certificate that expires at the very
\* moment it is verified, reached under a host name in capitals
C21_Witness ==
    /\ ret.op = "Check"
    /\ ret.result.IsHealthy
    /\ ret.result.ErrorMessage = ""
    /\ call.peer.cert.NotAfter = now
    /\ parseBaseURI(call.server.BaseURI).host = << "A", ".", "a" >>

\* C22: the message is that of the first step that fails, in the order base
\* URI, connection, expiry, host name, pins; an expired certificate is
\* reported as expired and unhealthy whatever the host name and the pins.
C22_FirstFailingStep ==
    ret.op = "Check" =>
        LET result == ret.result
            parsed == parseBaseURI(call.server.BaseURI)
            cert == call.peer.cert
            expected ==
                IF parsed.err THEN "invalid base_uri"
                ELSE IF call.peer.err THEN "TLS connection failed"
                ELSE IF now > cert.NotAfter THEN "certificate expired"
                ELSE IF ~matchesHostname(cert, parsed.host)
                THEN "certificate CN and SANs do not match hostname"
                ELSE IF ~matchesPin(<< "#" >> \o cert.Raw, call.server.Pins)
                THEN "certificate fingerprint does not match any pin in metadata"
                ELSE ""
        IN  /\ result.ErrorMessage = expected
            /\ ~parsed.err /\ ~call.peer.err /\ now > cert.NotAfter =>
                  ~result.IsHealthy /\ result.ErrorMessage = "certificate expired"

\* Check has reported an expired certificate whose names match the host and
\* whose digest is pinned
C22_Witness ==
    /\ ret.op = "Check"
    /\ ret.result.ErrorMessage = "certificate expired"
    /\ ~ret.result.IsHealthy
    /\ matchesHostname(call.peer.cert, parseBaseURI(call.server.BaseURI).host)
    /\ matchesPin(Fingerprint(call.peer.cert), call.server.Pins)

\* C23: with the other steps passing, the host matches the common name
\* exactly when, letter case aside, the two are equal or the common name is
\* "*." followed by D and the host is L, ".", D for one non-empty label L
\* without a dot.
C23_OneLevelWildcard ==
    ret.op = "Check" /\ Len(call.server.BaseURI) > 4 =>
        LET fold(s) == [i \in DOMAIN s |-> IF s[i] = "A" THEN "a" ELSE s[i]]
            h == fold(SubSeq(call.server.BaseURI, 5, Len(call.server.BaseURI)))
            p == fold(call.peer.cert.Subject.CommonName)
            wildcard == Len(p) >= 2 /\ p[1] = "*" /\ p[2] = "."
            oneLabel == \E n \in 1..(Len(h) - 1) :
                           /\ \A i \in 1..n : h[i] # "."
                           /\ h[n + 1] = "."
                           /\ SubSeq(h, n + 2, Len(h)) = SubSeq(p, 3, Len(p))
        IN  ret.result.IsHealthy <=> (p = h \/ (wildcard /\ oneLabel))

\* "*.a" has matched the host "A.a"
C23_Witness ==
    /\ ret.op = "Check"
    /\ ret.result.IsHealthy
    /\ call.peer.cert.Subject.CommonName = << "*", ".", "a" >>
    /\ parseBaseURI(call.server.BaseURI).host = << "A", ".", "a" >>

\* C24: when the steps before it pass, the pin step passes exactly when some
\* pin has the algorithm sha256 and the certificate's digest; when the only
\* pins with that digest carry another label the result is the ordinary
\* unhealthy result of a pin mismatch.
C24_Sha256PinsOnly ==
    ret.op = "Check" =>
        LET result == ret.result
            parsed == parseBaseURI(call.server.BaseURI)
            cert == call.peer.cert
            pins == call.server.Pins
            pinned == \E i \in DOMAIN pins :
                         /\ pins[i].Alg = "sha256"
                         /\ pins[i].Digest = << "#" >> \o cert.Raw
        IN  /\ ~parsed.err
            /\ ~call.peer.err
            /\ now <= cert.NotAfter
            /\ matchesHostname(cert, parsed.host)
            => /\ result.IsHealthy <=> pinned
               /\ ~pinned =>
                     result.ErrorMessage =
                        "certificate fingerprint does not match any pin in metadata"

\* the certificate's digest is pinned under sha1 only and Check has reported
\* a pin mismatch
C24_Witness ==
    /\ ret.op = "Check"
    /\ ~ret.result.IsHealthy
    /\ ret.result.ErrorMessage =
          "certificate fingerprint does not match any pin in metadata"
    /\ \E i \in DOMAIN call.server.Pins :
          /\ call.server.Pins[i].Alg = "sha1"
          /\ call.server.Pins[i].Digest = ret.result.CertFingerprint

\* C25 (as claimed): a host that is a literal IP address passes the host
\* name step only if one of the certificate's IP SANs equals it.
C25_AddressMatchesIPSANsOnly ==
    ret.op = "Check" =>
        LET parsed == parseBaseURI(call.server.BaseURI)
            cert == call.peer.cert
        IN  /\ ~parsed.err
            /\ ~call.peer.err
            /\ now <= cert.NotAfter
            /\ ParseIP(parsed.host) # NoIP
            /\ ret.result.ErrorMessage #
                  "certificate CN and SANs do not match hostname"
            => \E i \in DOMAIN cert.IPAddresses :
                  cert.IPAddresses[i] = ParseIP(parsed.host)

(***************************************************************************)
(* The store with all its columns.  A column is NULL or holds one value;   *)
(* a ServerStatus has pointers that may be nil and strings that may be     *)
(* empty.  SaveStatus binds the one to the other and GetStatus scans it    *)
(* back.  (The scheduler's rows above are the two columns the selection    *)
(* reads, with checked standing for last_checked IS NOT NULL.)             *)
(***************************************************************************)
NULL == << >>

\* the row INSERT ... (entity_id, base_uri) creates
NullColumns ==
    [last_checked |-> NULL, is_healthy |-> NULL, error_message |-> NULL,
     cert_expires |-> NULL, cert_cn |-> NULL, cert_fingerprint |-> NULL]

\* a *time.Time or *bool argument of Exec: nil is NULL
BindPointer(p) == IF p.isNil THEN NULL ELSE << p.val >>

\* a string argument of Exec: a TEXT value, also when it is empty
BindString(s) == << s >>

\* the values SaveStatus passes for the columns that are not the key
Columns(status) ==
    [last_checked |-> BindPointer(status.LastChecked),
     is_healthy |-> BindPointer(status.IsHealthy),
     error_message |-> BindString(status.ErrorMessage),
     cert_expires |-> BindPointer(status.CertExpires),
     cert_cn |-> BindString(status.CertCN),
     cert_fingerprint |-> BindString(status.CertFingerprint)]

\* Scan into a *time.Time or *bool: NULL is nil
ScanPointer(column) == IF column = NULL THEN NilPointer ELSE Pointer(column[1])

\* Scan into a sql.NullString, then its String field: NULL is ""
ScanNullString(column) == IF column = NULL THEN << >> ELSE column[1]

\* GetStatus: the (*ServerStatus, error) it returns when the database
\* answers; sql.ErrNoRows gives (nil, nil)
GetStatus(table, entityID, baseURI) ==
    LET key == Key(entityID, baseURI)
    IN  IF key \notin DOMAIN table
        THEN [status |-> NilPointer, err |-> FALSE]
        ELSE [status |-> Pointer(
                 [EntityID |-> entityID,
                  BaseURI |-> baseURI,
                  LastChecked |-> ScanPointer(table[key].last_checked),
                  IsHealthy |-> ScanPointer(table[key].is_healthy),
                  ErrorMessage |-> ScanNullString(table[key].error_message),
                  CertExpires |-> ScanPointer(table[key].cert_expires),
                  CertCN |-> ScanNullString(table[key].cert_cn),
                  CertFingerprint |->
                      ScanNullString(table[key].cert_fingerprint)]),
              err |-> FALSE]

\* the keys of one entity
StoreKeys == { k \in ServerKey : k.EntityID = << "e" >> }

\* the statuses saved: any of the nullable fields nil or set, the message
\* empty or not, the certificate fields empty or those of a certificate
Statuses ==
    { [EntityID |-> k.EntityID, BaseURI |-> k.BaseURI,
       LastChecked |-> lastChecked, IsHealthy |-> isHealthy,
       ErrorMessage |-> errorMessage, CertExpires |-> cert[1],
       CertCN |-> cert[2], CertFingerprint |-> cert[3]] :
        k \in StoreKeys,
        lastChecked \in { NilPointer, Pointer(0) },
        isHealthy \in { NilPointer, Pointer(TRUE) },
        errorMessage \in { << >>, << "e" >> },
        cert \in { << NilPointer, << >>, << >> >>,
                   << Pointer(1), << "c" >>, << "#", "x" >> >> } }

\* a fresh database, as New leaves it
StoreInit ==
    /\ Idle
    /\ rows = NoRows
    /\ now = 0
    /\ call = NoCall
    /\ ret = NoReturn

StoreFrame ==
    UNCHANGED << pc, stopPc, ctxDone, metadataChanged, priorityChan,
                 priorityServers, inFlight, semaphore, inflightWg, probes,
                 metadata, now, runLocals, events >>

\* s.SaveStatus(status); dbError tells whether Exec returned an error
StoreSaveStatus ==
    /\ \E status \in Statuses, dbError \in BOOLEAN :
          /\ call' = [op |-> "SaveStatus", status |-> status,
                      dbError |-> dbError]
          /\ rows' = IF dbError
                     THEN rows
                     ELSE SaveStatus(rows, Key(status.EntityID, status.BaseURI),
                                     Columns(status))
          /\ ret' = [op |-> "SaveStatus", err |-> dbError]
    /\ StoreFrame

\* s.GetStatus(entityID, baseURI); dbError tells whether the query failed
\* for another reason than sql.ErrNoRows
StoreGetStatus ==
    /\ \E key \in StoreKeys, dbError \in BOOLEAN :
          /\ call' = [op |-> "GetStatus", key |-> key, dbError |-> dbError]
          /\ ret' = IF dbError
                    THEN [op |-> "GetStatus", status |-> NilPointer,
                          err |-> TRUE]
                    ELSE [op |-> "GetStatus"] @@
                         GetStatus(rows, key.EntityID, key.BaseURI)
    /\ UNCHANGED rows
    /\ StoreFrame

\* s.EnsureServerExists(entityID, baseURI)
StoreEnsureServerExists ==
    /\ \E key \in StoreKeys, dbError \in BOOLEAN :
          /\ call' = [op |-> "EnsureServerExists", key |-> key,
                      dbError |-> dbError]
          /\ rows' = IF dbError
                     THEN rows
                     ELSE InsertOrIgnore(rows, key, NullColumns)
          /\ ret' = [op |-> "EnsureServerExists", err |-> dbError]
    /\ StoreFrame

StoreNext ==
    \/ StoreSaveStatus
    \/ StoreGetStatus
    \/ StoreEnsureServerExists

StoreSpec == StoreInit /\ [][StoreNext]_vars

(***************************************************************************)
(* Claims about the store's methods.                                       *)
(***************************************************************************)
\* C26: a successful SaveStatus(s) writes the one row of s's key and leaves
\* the other rows alone; saving s again leaves the table as it is; GetStatus
\* of the key right after returns s field by field, nil for nil and empty
\* for empty; GetStatus of a key without a row returns nil and no error.
C26_SaveStatusOverwrites ==
    [][ /\ call'.op = "SaveStatus" /\ ~call'.dbError =>
              LET key == Key(call'.status.EntityID, call'.status.BaseURI)
              IN  /\ DOMAIN rows' = DOMAIN rows \cup {key}
                  /\ \A k \in DOMAIN rows \ {key} : rows'[k] = rows[k]
                  /\ SaveStatus(rows', key, Columns(call'.status)) = rows'
        /\ /\ call.op = "SaveStatus" /\ ~call.dbError
           /\ call'.op = "GetStatus" /\ ~call'.dbError
           /\ call'.key = Key(call.status.EntityID, call.status.BaseURI)
           => /\ ~ret'.err
              /\ ~ret'.status.isNil
              /\ ret'.status.val = call.status
        /\ /\ call'.op = "GetStatus" /\ ~call'.dbError
           /\ call'.key \notin DOMAIN rows
           => ret'.status.isNil /\ ~ret'.err
      ]_vars

\* GetStatus has returned a saved status whose last-checked time is nil, whose
\* message is empty and whose certificate fields are set
C26_Witness ==
    /\ call.op = "GetStatus"
    /\ ~ret.err
    /\ ~ret.status.isNil
    /\ ret.status.val.LastChecked.isNil
    /\ ret.status.val.ErrorMessage = << >>
    /\ ~ret.status.val.CertExpires.isNil
    /\ ret.status.val.CertCN = << "c" >>

\* C27: a successful EnsureServerExists leaves the table as it is when the
\* key has a row; when it has none it adds a row whose every column but the
\* key is NULL and leaves the other rows alone; a second call changes nothing.
C27_EnsureServerExistsOnlyCreates ==
    [][ call'.op = "EnsureServerExists" /\ ~call'.dbError =>
           LET key == call'.key
           IN  /\ key \in DOMAIN rows => rows' = rows
               /\ key \notin DOMAIN rows =>
                     /\ DOMAIN rows' = DOMAIN rows \cup {key}
                     /\ \A k \in DOMAIN rows : rows'[k] = rows[k]
                     /\ \A column \in DOMAIN rows'[key] :
                           rows'[key][column] = << >>
               /\ InsertOrIgnore(rows', key, NullColumns) = rows'
      ]_vars

\* EnsureServerExists has returned for a key whose row holds a saved status
C27_Witness ==
    /\ call.op = "EnsureServerExists"
    /\ ~call.dbError
    /\ call.key \in DOMAIN rows
    /\ rows[call.key].last_checked # << >>
    /\ rows[call.key].cert_cn = << << "c" >> >>

(***************************************************************************)
(* Claims about the run goroutine's lifecycle and the tick's candidate.    *)
(***************************************************************************)
\* the scheduler-level state a position of run stands for: the startup loop
\* and its resync, the select loop and the tick's steps, inflightWg.Wait(),
\* and run having returned
Lifecycle(position) ==
    CASE position \in {"new", "await", "awaitSelect", "initSync"} ->
            "AwaitingMetadata"
      [] position \in {"wait", "scan", "dispatch"} -> "Running"
      [] position = "drain" -> "Draining"
      [] position = "done" -> "Stopped"

LifecycleOrder(state) ==
    CASE state = "AwaitingMetadata" -> 1
      [] state = "Running" -> 2
      [] state = "Draining" -> 3
      [] state = "Stopped" -> 4

\* C28: the lifecycle state never moves backwards: from Running it never
\* goes to AwaitingMetadata, whatever the snapshot becomes, and from
\* Draining or Stopped, which follow the shutdown signal, it never goes to
\* Running.
C28_LifecycleMovesForward ==
    [][ /\ LifecycleOrder(Lifecycle(pc')) >= LifecycleOrder(Lifecycle(pc))
        /\ Lifecycle(pc) = "Running" => Lifecycle(pc') # "AwaitingMetadata"
        /\ Lifecycle(pc) \in {"Draining", "Stopped"} =>
              ctxDone /\ Lifecycle(pc') # "Running"
      ]_vars

\* run is in its select loop, the snapshot has become unavailable and the
\* resync that followed has run
C28_Witness ==
    /\ pc = "wait"
    /\ metadata.isNil
    /\ ~metadataChanged
    /\ DOMAIN rows # {}
    /\ ~ctxDone

\* C29: the scan starts at the first candidate; one iteration tests the
\* candidate's key against the in-flight set and, in the same step, either
\* adds exactly that key and makes the candidate the chosen one, or leaves
\* the set as it is and moves to the next candidate; after the last
\* candidate the tick ends with nothing marked, acquired or dispatched.
C29_FirstFreeCandidateMarked ==
    [][ /\ pc # "scan" /\ pc' = "scan" => scan' = 1 /\ servers' # << >>
        /\ pc = "scan" /\ (pc' # "scan" \/ scan' # scan) =>
              LET srv == servers[scan]
                  key == srv.EntityID \o << "|" >> \o srv.BaseURI
              IN  IF key \notin inFlight
                  THEN /\ inFlight' = inFlight \cup {key}
                       /\ server' = srv
                       /\ pc' = "dispatch"
                  ELSE /\ inFlight' = inFlight
                       /\ server' = server
                       /\ IF scan < Len(servers)
                          THEN /\ pc' = "scan"
                               /\ scan' = scan + 1
                               /\ servers' = servers
                          ELSE /\ pc' = "wait"
                               /\ UNCHANGED << semaphore, inflightWg, probes,
                                               rows, priorityServers >>
      ]_vars

\* the first candidate was found in flight and the scan is at the second
C29_Witness ==
    /\ pc = "scan"
    /\ scan = 2
    /\ serverKeyString(servers[1].EntityID, servers[1].BaseURI) \in inFlight
    /\ serverKeyString(servers[2].EntityID, servers[2].BaseURI) \notin inFlight

\* the chosen key is in the snapshot
InSnapshot(key) ==
    /\ ~metadata.isNil
    /\ key.EntityID \in DOMAIN metadata.Entities
    /\ key.BaseURI \in metadata.Entities[key.EntityID]

\* the tick drops a chosen key that is not in the snapshot: its mark is
\* cleared, no permit is acquired, no probe is dispatched
SkippedWhenNotInSnapshot ==
    pc = "dispatch" /\ pc' # "dispatch" /\ ~InSnapshot(server) =>
        /\ inFlight' = inFlight \ {server.EntityID \o << "|" >> \o server.BaseURI}
        /\ pc' = "wait"
        /\ UNCHANGED << semaphore, inflightWg, probes, rows >>

C31_FailedAcquireClearsMark ==
    [][ /\ pc = "wait" /\ pc' = "scan" => inFlight' = inFlight
        /\ pc = "scan" /\ pc' = "dispatch" =>
              LET key == server'.EntityID \o << "|" >> \o server'.BaseURI
              IN  key \notin inFlight /\ inFlight' = inFlight \cup {key}
        /\ pc = "dispatch" /\ pc' # "dispatch" /\ InSnapshot(server)
                           /\ semaphore >= maxParallel =>
              LET key == server.EntityID \o << "|" >> \o server.BaseURI
              IN  /\ key \in inFlight
                  /\ inFlight' = inFlight \ {key}
                  /\ markInFlight(inFlight', server.EntityID, server.BaseURI)
                  /\ pc' = "wait"
                  /\ UNCHANGED << semaphore, inflightWg, probes >>
      ]_vars

\* a tick has marked a key of the snapshot while the probe of another key
\* holds the only permit
C31_Witness ==
    /\ pc = "dispatch"
    /\ InSnapshot(server)
    /\ ~semaphoreHasRoom(semaphore)
    /\ serverKeyString(server.EntityID, server.BaseURI) \in inFlight
    /\ \E p \in BagToSet(probes) :
          /\ p.pc \in HoldingPermit
          /\ serverKeyString(p.key.EntityID, p.key.BaseURI) \in
                inFlight \ {serverKeyString(server.EntityID, server.BaseURI)}

\* C32: a probe goroutine walks through all its steps whatever the verdict
\* and whether or not SaveStatus succeeded: a step that takes it out of one
\* stage puts it into the next one; the mark of its key is set for as long
\* as it exists; the pool loses a permit only in the release step of a
\* probe, and then exactly one; and its last step removes exactly the mark
\* of its own key.
C32_ProbeReleasesAndClears ==
    [][ /\ \A p \in BagToSet(probes) :
              CopiesIn(p, probes') < CopiesIn(p, probes) =>
                 LET key == p.key.EntityID \o << "|" >> \o p.key.BaseURI
                     next == CASE p.pc = "check" -> "save"
                               [] p.pc = "save" -> "removePriority"
                               [] p.pc = "removePriority" -> "release"
                               [] p.pc = "release" -> "wgDone"
                               [] p.pc = "wgDone" -> "clearInFlight"
                               [] p.pc = "clearInFlight" -> "gone"
                 IN  /\ key \in inFlight
                     /\ p.pc # "clearInFlight" =>
                           /\ \E q \in BagToSet(probes') :
                                 /\ q.key = p.key
                                 /\ q.pc = next
                                 /\ CopiesIn(q, probes') > CopiesIn(q, probes)
                           /\ inFlight' = inFlight
                     /\ p.pc = "release" => semaphore' = semaphore - 1
                     /\ p.pc # "release" => semaphore' = semaphore
                     /\ p.pc = "clearInFlight" =>
                           /\ inFlight' = inFlight \ {key}
                           /\ BagCardinality(probes') = BagCardinality(probes) - 1
        /\ semaphore' < semaphore =>
              \E p \in BagToSet(probes) :
                 p.pc = "release" /\ CopiesIn(p, probes') < CopiesIn(p, probes)
      ]_vars

\* a probe whose result was not written (the row of its key is still
\* all-null) has released its permit and is about to clear its mark, while
\* the probe of another key is running
C32_Witness ==
    \E p, q \in BagToSet(probes) :
        /\ p.pc = "clearInFlight"
        /\ p.key \in DOMAIN rows
        /\ ~rows[p.key].checked
        /\ q.pc \in HoldingPermit
        /\ q.key # p.key
        /\ semaphore = 1

\* C33: store errors are survived.  Run leaves its select loop only through
\* the ctx.Done case; a firing of the ticker that leaves run at its select
\* (the query failed or returned nothing) sets no mark, takes no permit,
\* starts no probe and keeps no candidate, and run only goes on to the scan
\* with a candidate list; a probe's SaveStatus step, failed or not, changes
\* at most the table and sends the probe on to its next step; a resync,
\* whichever of its store statements failed, changes at most the table and
\* leaves run at its select.
C33_StoreErrorsAreSurvived ==
    [][ /\ Lifecycle(pc) = "Running" /\ Lifecycle(pc') # "Running" =>
              ctxDone /\ pc = "wait" /\ pc' = "drain"
        /\ pc = "wait" /\ pc' = "wait" /\ events' # events =>
              UNCHANGED << inFlight, semaphore, inflightWg, probes, rows,
                           priorityServers, servers, scan, server >>
        /\ pc = "wait" /\ pc' = "scan" =>
              /\ servers' # << >>
              /\ UNCHANGED << inFlight, semaphore, inflightWg, probes, rows >>
        /\ \A p \in BagToSet(probes) :
              p.pc = "save" /\ CopiesIn(p, probes') < CopiesIn(p, probes) =>
                 /\ pc' = pc
                 /\ \/ rows' = rows
                    \/ /\ p.key \in DOMAIN rows'
                       /\ rows'[p.key].checked
                       /\ rows'[p.key].LastChecked = p.CheckedAt
                 /\ CopiesIn(Probe(p.key, "removePriority", 0, FALSE), probes') >
                       CopiesIn(Probe(p.key, "removePriority", 0, FALSE), probes)
                 /\ UNCHANGED << inFlight, semaphore, inflightWg,
                                 priorityServers >>
        /\ ResyncStep =>
              /\ pc' = "wait"
              /\ UNCHANGED << inFlight, semaphore, inflightWg, probes,
                              priorityServers >>
      ]_vars

\* a tick is scanning its candidates after a resync that failed to create
\* the row of a key of the snapshot, while a probe whose result was not
\* written goes on to its cleanup
C33_Witness ==
    /\ pc = "scan"
    /\ ~metadataChanged
    /\ \E k \in ServerKey : InSnapshot(k) /\ k \notin DOMAIN rows
    /\ \E p \in BagToSet(probes) :
          /\ p.pc = "removePriority"
          /\ p.key \in DOMAIN rows
          /\ ~rows[p.key].checked

\* C34: no step of a tick (the firing of the ticker, an iteration of the
\* scan, the dispatch step) changes the priority set; a flagged key whose
\* row was checked less than priorityMinInterval ago is not among the
\* candidates of the tick and stays flagged; and a key leaves the priority
\* set only in the removePriorityServer step of a probe of that key.
C34_TickKeepsPriorityEntries ==
    [][ /\ Lifecycle(pc) = "Running"
           /\ (pc' # pc \/ scan' # scan \/ (pc = "wait" /\ events' # events)) =>
              priorityServers' = priorityServers
        /\ pc = "wait" /\ pc' = "scan" =>
              \A k \in SeqToSet(priorityServers) :
                 /\ k \in DOMAIN rows
                 /\ rows[k].checked
                 /\ rows[k].LastChecked >= now - priorityMinInterval
                 => /\ k \notin SeqToSet(servers')
                    /\ k \in SeqToSet(priorityServers')
        /\ \A k \in SeqToSet(priorityServers) :
              k \notin SeqToSet(priorityServers') =>
                 \E p \in BagToSet(probes) :
                    /\ p.key = k
                    /\ p.pc = "removePriority"
                    /\ CopiesIn(p, probes') < CopiesIn(p, probes)
      ]_vars

\* a tick has listed its candidates; a flagged key that has no probe and
\* whose row was checked less than priorityMinInterval ago is not among
\* them and is still flagged
C34_Witness ==
    /\ pc = "scan"
    /\ scan = 1
    /\ \E k \in SeqToSet(priorityServers) :
          /\ k \in DOMAIN rows
          /\ rows[k].checked
          /\ rows[k].LastChecked >= now - priorityMinInterval
          /\ ProbeCount(k) = 0
          /\ k \notin SeqToSet(servers)

\* C35 (as claimed): a request waiting in priorityChan was accepted
\* (RequestPriorityCheck returned true); once run has received it, its key
\* is in the priority set.
C35_AcceptedRequestNotLost ==
    [][ RequestConsumed => Head(priorityChan) \in SeqToSet(priorityServers')
      ]_vars

\* C36 (as claimed): a tick that ends without dispatching a probe does not
\* leave a free permit together with a row that needs a check, whose key is
\* in the snapshot and is not in flight.
C36_TickNeverIdleWithWork ==
    [][ /\ pc \in {"scan", "dispatch"}
        /\ pc' = "wait"
        /\ probes' = probes
        => ~ /\ semaphore' < maxParallel
             /\ \E k \in DOMAIN rows' :
                   /\ NeedsCheck(rows'[k], now', minCheckInterval)
                   /\ InSnapshot(k)'
                   /\ (k.EntityID \o << "|" >> \o k.BaseURI) \notin inFlight'
      ]_vars

\* C36 (amended): a tick dispatches a probe of its chosen candidate (the
\* first fetched candidate that is not in flight) whenever that key is in
\* the snapshot and a permit is free; when the chosen key is not in the
\* snapshot, or each of the at most maxParallel + 1 fetched candidates was
\* in flight when the scan tested it, the tick ends with no probe and no
\* permit taken, whatever other rows the store holds.
C36_TickDispatchesChosenCandidate ==
    [][ /\ pc = "dispatch" /\ pc' # "dispatch" /\ InSnapshot(server)
                           /\ semaphore < maxParallel =>
              /\ probes' = probes (+) One(Probe(server, "check", 0, FALSE))
              /\ semaphore' = semaphore + 1
              /\ inflightWg' = inflightWg + 1
              /\ (server.EntityID \o << "|" >> \o server.BaseURI) \in inFlight'
              /\ pc' = "wait"
        /\ pc = "dispatch" /\ pc' # "dispatch" /\ ~InSnapshot(server) =>
              /\ pc' = "wait"
              /\ UNCHANGED << probes, semaphore, inflightWg >>
        /\ pc = "scan" /\ pc' = "wait" =>
              /\ scan = Len(servers)
              /\ (servers[scan].EntityID \o << "|" >> \o servers[scan].BaseURI)
                    \in inFlight
              /\ Len(servers) <= maxParallel + 1
              /\ UNCHANGED << probes, semaphore, inflightWg, inFlight >>
      ]_vars

\* the over-fetched candidate is used: the first candidate is in flight,
\* the scan is at the second, which is free and in the snapshot, and a
\* permit is free
C36_Witness ==
    /\ pc = "scan"
    /\ scan = 2
    /\ serverKeyString(servers[1].EntityID, servers[1].BaseURI) \in inFlight
    /\ serverKeyString(servers[2].EntityID, servers[2].BaseURI) \notin inFlight
    /\ InSnapshot(servers[2])
    /\ semaphoreHasRoom(semaphore)

\* C37 (as claimed): the in-flight set never holds more than maxParallel
\* keys.
C37_InFlightWithinPermits ==
    Cardinality(inFlight) <= maxParallel

\* C37 (amended): the in-flight set holds exactly the keys of the probe
\* goroutines that exist, one each, and the key a tick has marked and not
\* yet dispatched or dropped; at most maxParallel of the probes hold a
\* permit, the others have released theirs and have yet to clear their mark.
C37_InFlightIsProbesAndChosen ==
    LET chosen == IF pc = "dispatch"
                  THEN {server.EntityID \o << "|" >> \o server.BaseURI}
                  ELSE {}
        running == { p.key.EntityID \o << "|" >> \o p.key.BaseURI :
                        p \in BagToSet(probes) }
    IN  /\ inFlight = running \cup chosen
        /\ running \cap chosen = {}
        /\ Cardinality(running) = BagCardinality(probes)
        /\ StageCount(HoldingPermit) <= maxParallel
        /\ Cardinality(inFlight) <=
              maxParallel + Cardinality(chosen)
                 + StageCount({"wgDone", "clearInFlight"})

\* run is at its select and the in-flight set holds more keys than there
\* are permits: a probe that has released its permit has yet to clear its
\* mark while the next probe runs
C37_Witness ==
    /\ pc = "wait"
    /\ Cardinality(inFlight) > maxParallel
    /\ StageCount(HoldingPermit) = maxParallel
    /\ StageCount({"wgDone", "clearInFlight"}) > 0

\* C38 (as claimed): once Stop has returned the in-flight set is empty and
\* every permit is back in the pool.
C38_QuiescentAfterStop ==
    stopPc = "returned" => inFlight = {} /\ semaphore = 0

\* C39: whenever run is not between marking a key and dispatching or
\* dropping it (in particular at its select and during the scan), every
\* mark in the in-flight set is the mark of a probe goroutine that still
\* exists, so it will be cleared by that goroutine's last step; and no
\* chosen candidate is left over at the select.
C39_NoOrphanMark ==
    pc # "dispatch" =>
       /\ \A key \in inFlight :
             \E p \in BagToSet(probes) :
                key = p.key.EntityID \o << "|" >> \o p.key.BaseURI
       /\ server = NoServer

\* a tick has marked a key that is not in the snapshot while a probe of
\* another key is running with the only permit: the tick is about to end on
\* the lookup miss
C39_Witness ==
    /\ pc = "dispatch"
    /\ ~InSnapshot(server)
    /\ semaphore = maxParallel
    /\ Cardinality(inFlight) = 2
    /\ \E p \in BagToSet(probes) : p.pc \in HoldingPermit /\ p.key # server

\* C40: the priority set changes in two ways only.  Run's receive of a
\* request appends the requested key, and only if that key is not in the
\* set and the set is not full; the removePriorityServer step of a probe of
\* a key that is in the set takes out that key and keeps the other entries
\* in their order.  Every other step (a tick, a resync, a request that is
\* sent, rejected or found a duplicate, a probe of a key that is not in the
\* set, any other step of a probe) leaves the set as it is.
C40_OnlyOwnProbeRemoves ==
    [][ /\ priorityServers' # priorityServers =>
              \/ /\ RequestConsumed
                 /\ Head(priorityChan) \notin SeqToSet(priorityServers)
                 /\ Len(priorityServers) < maxPriorityServers
                 /\ priorityServers' = Append(priorityServers, Head(priorityChan))
              \/ \E p \in BagToSet(probes) :
                    /\ p.pc = "removePriority"
                    /\ CopiesIn(p, probes') < CopiesIn(p, probes)
                    /\ p.key \in SeqToSet(priorityServers)
                    /\ priorityServers' =
                          SelectSeq(priorityServers, LAMBDA k : k # p.key)
        /\ ResyncStep => priorityServers' = priorityServers
        /\ events' # events => priorityServers' = priorityServers
        /\ \A p \in BagToSet(probes) :
              /\ p.pc = "removePriority"
              /\ CopiesIn(p, probes') < CopiesIn(p, probes)
              /\ p.key \notin SeqToSet(priorityServers)
              => priorityServers' = priorityServers
      ]_vars

\* the priority set is full and a probe of its second key is about to run
\* removePriorityServer, which must leave the first entry in place
C40_Witness ==
    /\ Len(priorityServers) = maxPriorityServers
    /\ \E p \in BagToSet(probes) :
          /\ p.pc = "removePriority"
          /\ p.key = priorityServers[2]
          /\ p.key # priorityServers[1]

====
